---- MODULE Spec2Model ----
(***************************************************************************)
(* Verification model of three check plugins of go-check-plugins:          *)
(*   - check-aws-cloudwatch-logs (src/unnamed/part_000)                     *)
(*   - check-ntpoffset           (src/check-ntpoffset/lib/check-ntpoffset.go)*)
(*   - check-mysql               (src/check-mysql/lib/check-mysql.go)       *)
(*                                                                         *)
(* together with the two threshold evaluators as functions of the          *)
(* measurement, and withCmd of check-ntpoffset with its subprocess and the *)
(* pipe between them, step by step.                                        *)
(*                                                                         *)
(* Text is modelled as a sequence of one-character strings, so that        *)
(* splitting, joining, prefix tests and number parsing are computed        *)
(* character by character as the Go code computes them.                    *)
(* Floating-point values are modelled as exact fixed-point numbers: an     *)
(* integer count of 1/Scale units.                                         *)
(***************************************************************************)
EXTENDS Integers, Sequences, FiniteSets, TLC

VARIABLES
    \* ---- check-aws-cloudwatch-logs ----
    cwPc,        \* position of run(args): "start", "loop", "sleep", "done", "exit"
    opts,        \* logOpts as parsed from the command line
    p,           \* the cloudwatchLogsPlugin instance
    nextToken,   \* local of cloudwatchLogsPlugin.run
    messages,    \* local of cloudwatchLogsPlugin.run / its returned slice
    now,         \* wall clock, milliseconds
    requests,    \* FilterLogEventsInput values received by the service, in order
    responses,   \* what the service answered to each request, in order
    cwCkr,       \* the checker returned by run(args)
    cwExit,      \* exit code of an os.Exit taken inside run(args), or NoExit
    \* ---- check-ntpoffset ----
    ntpPc,       \* position of run(args): "start", "detect", "switch", "measure", "done", "exit", "panic"
    ntpArgs,     \* the texts given to --critical and --warning, empty when not given
    ntpOpts,     \* the package-level opts: Crit and Warn
    uid,         \* syscall.Getuid()
    lookPath,    \* whether exec.LookPath("chronyc") finds the tool
    detectCmd,   \* the subprocess of detectNTPDname (lsof or ps)
    detected,    \* what detectNTPDname returned
    offsetCmd,   \* the subprocess of the measurement (ntpq or chronyc)
    parsed,      \* what the daemon-specific parser returned
    measured,    \* what getNtpOffset returned
    ntpCkr,      \* the checker returned by run(args)
    ntpExit,     \* exit code of an os.Exit taken inside run(args), or NoExit
    \* ---- check-mysql ----
    myPc,        \* position of Do: "start", "check", "exit"; of a getMySQLVersion call:
                 \* "version", "versioned", "panic"
    osArgs,      \* os.Args[1:]
    subCmd,      \* the subcommand separateSub returned
    argv,        \* the arguments separateSub returned
    ran,         \* the check function Do called, "" for none
    printed,     \* the subcommand names Do printed
    myCkr,       \* the checker of the check function, named by Do
    myExit,      \* exit code of the process, or NoExit
    queryErr,    \* error of SELECT VERSION()
    rawVersion,  \* text SELECT VERSION() returned
    version,     \* what getMySQLVersion returned
    \* ---- the two threshold evaluators, applied to a pair of measurements ----
    evalPc,      \* "start", "done"
    evaluator,   \* which run evaluated: "cloudwatch" or "ntp", "" before
    thresholds,  \* the fixed warning and critical thresholds
    measureA,    \* the first measurement
    measureB,    \* the second measurement
    statusA,     \* the status of the first measurement
    statusB,     \* the status of the second measurement
    \* ---- withCmd of check-ntpoffset, its subprocess and the pipe between them ----
    wcPc,        \* position of withCmd: "start", "fn" (in the callback), "wait" (in
                 \* cmd.Wait), "returned", "panic"
    callback,    \* the command run and its callback: "lsof", "ps", "ntpq", "chronyc"
    child,       \* the subprocess: "none", "running", "exited"
    toWrite,     \* the lines the subprocess has still to write to its stdout
    pipe,        \* the lines in the pipe: written and not yet read
    scanBuf,     \* the lines read from the pipe into the reader's buffer
    scanned,     \* the lines the callback has got from its reader, in order
    wcErr        \* the error withCmd returned

cwVars == <<cwPc, opts, p, nextToken, messages, now, requests, responses, cwCkr, cwExit>>
ntpVars == <<ntpPc, ntpArgs, ntpOpts, uid, lookPath, detectCmd, detected, offsetCmd, parsed, measured,
            ntpCkr, ntpExit>>
myVars == <<myPc, osArgs, subCmd, argv, ran, printed, myCkr, myExit, queryErr, rawVersion,
           version>>
evalVars == <<evalPc, evaluator, thresholds, measureA, measureB, statusA, statusB>>
pipeVars == <<wcPc, callback, child, toWrite, pipe, scanBuf, scanned, wcErr>>
vars == <<cwPc, opts, p, nextToken, messages, now, requests, responses, cwCkr, cwExit,
          ntpPc, ntpArgs, ntpOpts, uid, lookPath, detectCmd, detected, offsetCmd, parsed, measured,
          ntpCkr, ntpExit,
          myPc, osArgs, subCmd, argv, ran, printed, myCkr, myExit, queryErr, rawVersion,
          version,
          evalPc, evaluator, thresholds, measureA, measureB, statusA, statusB,
          wcPc, callback, child, toWrite, pipe, scanBuf, scanned, wcErr>>

(***************************************************************************)
(* Bounds of the model                                                     *)
(***************************************************************************)
\* the scripted service hands out a continuation token on at most MaxPages - 1 pages
MaxPages == 3
\* a subprocess writes at most MaxOutputLines lines
MaxOutputLines == 2
\* a command line has at most MaxArgs arguments
MaxArgs == 3
\* a version string has at most MaxVersionParts dot-separated parts
MaxVersionParts == 3
\* thresholds and measurements of the evaluators range over -MaxMeasure..MaxMeasure
MaxMeasure == 3
\* the stdout pipe of a subprocess holds at most PipeCapacity unread lines
PipeCapacity == 1

(***************************************************************************)
(* checkers.Status and its exit codes                                      *)
(***************************************************************************)
OK == "OK"
WARNING == "WARNING"
CRITICAL == "CRITICAL"
UNKNOWN == "UNKNOWN"
NONE == "NONE"

ExitCode(status) ==
    CASE status = OK -> 0
      [] status = WARNING -> 1
      [] status = CRITICAL -> 2
      [] status = UNKNOWN -> 3

\* no os.Exit was taken; an exit is recorded as the one-element sequence of its code
NoExit == <<>>
NoChecker == [status |-> NONE, msg |-> <<>>]

NewChecker(status, msg) == [status |-> status, msg |-> msg]

(***************************************************************************)
(* Go slices of strings: the nil slice is distinct from an empty one       *)
(***************************************************************************)
NilSlice == [isNil |-> TRUE, elems |-> <<>>]

LenSlice(s) == Len(s.elems)

\* strings.Join(elems, "")
RECURSIVE JoinEmpty(_)
JoinEmpty(elems) ==
    IF elems = <<>> THEN <<>> ELSE Head(elems) \o JoinEmpty(Tail(elems))

(***************************************************************************)
(* check-aws-cloudwatch-logs                                               *)
(***************************************************************************)
\* values of --warning-over / --critical-over offered on the command line
ThresholdArgs == {0, 5, 10}
\* opaque continuation tokens
Tokens == {"t1", "t2"}
NilToken == "nil"
\* message bodies
MsgA == <<"a">>
MsgB == <<"b", "c">>
MsgEmpty == <<>>
\* the event lists a page may carry
EventBatches ==
    { <<>>,
      <<MsgEmpty>>,
      <<MsgA, MsgB, MsgA>>,
      <<MsgB, MsgB, MsgA, MsgB>> }
\* error texts of the SDK; the empty text stands for a nil error
NoError == <<>>
ErrThrottle == <<"t", "h", "r", "o", "t", "t", "l", "e", "d">>
ErrSession == <<"n", "o", " ", "s", "e", "s", "s", "i", "o", "n">>
\* clock readings at process start, milliseconds since the epoch
StartClocks == {1000000, 1000750}
\* how long time.Sleep(250ms) may really take, milliseconds
SleepDurations == {250, 500}

NoPlugin == [Service |-> FALSE, LogGroupName |-> "", Pattern |-> "",
             WarningOver |-> 0, CriticalOver |-> 0]
NoOpts == [LogGroupName |-> "", Pattern |-> "", WarningOver |-> 0, CriticalOver |-> 0]

\* what flags.ParseArgs may leave in logOpts
ParsedOpts ==
    { [LogGroupName |-> "group", Pattern |-> "pattern", WarningOver |-> w, CriticalOver |-> c] :
        w \in ThresholdArgs, c \in ThresholdArgs }

\* what the service may answer to its n-th request of one invocation
ServiceAnswers(n) ==
    { [err |-> ErrThrottle, Events |-> <<>>, NextToken |-> NilToken] }
    \cup { [err |-> NoError, Events |-> ev, NextToken |-> NilToken] : ev \in EventBatches }
    \cup { [err |-> NoError, Events |-> ev, NextToken |-> t] :
             ev \in EventBatches, t \in IF n < MaxPages THEN Tokens ELSE {} }

PluginFromOptsCopying(o) ==
    [Service |-> TRUE, LogGroupName |-> o.LogGroupName, Pattern |-> o.Pattern,
     WarningOver |-> o.WarningOver, CriticalOver |-> o.CriticalOver]

\* the struct literal of newCloudwatchLogsPlugin: WarningOver and CriticalOver
\* are not set and keep Go's zero value
PluginFromOpts(o) ==
    [Service |-> TRUE, LogGroupName |-> o.LogGroupName, Pattern |-> o.Pattern,
     WarningOver |-> 0, CriticalOver |-> 0]

\* startTime := time.Now().Add(-5 * time.Minute); startTime.Unix() * 1000
StartTimeAt(t) == ((t - 5 * 60 * 1000) \div 1000) * 1000

FilterLogEventsInput(plugin, token, t) ==
    [StartTime |-> StartTimeAt(t), LogGroupName |-> plugin.LogGroupName,
     NextToken |-> token, FilterPattern |-> plugin.Pattern]

AppendEventsOverwrite(msgs, events) ==
    IF events = <<>> THEN msgs
    ELSE [isNil |-> FALSE, elems |-> events]

\* for _, ev := range output.Events { messages = append(messages, *ev.Message) }
AppendEvents(msgs, events) ==
    IF events = <<>> THEN msgs
    ELSE [isNil |-> FALSE, elems |-> msgs.elems \o events]

\* if output.NextToken == nil { break }
IsLastPage(out) == out.NextToken = NilToken

EvalStatusWarningFirst(n, warningOver, criticalOver) ==
    IF n > warningOver THEN WARNING
    ELSE IF n > criticalOver THEN CRITICAL
    ELSE OK

\* the threshold comparison of run
EvalStatus(n, warningOver, criticalOver) ==
    IF n > criticalOver THEN CRITICAL
    ELSE IF n > warningOver THEN WARNING
    ELSE OK

UnknownCheckerAsCritical(err) == NewChecker(CRITICAL, err)

\* return checkers.NewChecker(checkers.UNKNOWN, fmt.Sprint(err))
UnknownChecker(err) == NewChecker(UNKNOWN, err)

\* the tail of run(args) once p.run() returned without error
CheckerOf(plugin, msgs) ==
    IF ~msgs.isNil
      THEN NewChecker(EvalStatus(LenSlice(msgs), plugin.WarningOver, plugin.CriticalOver),
                      JoinEmpty(msgs.elems))
      ELSE NewChecker(OK, <<"o", "k">>)

CwInit ==
    /\ cwPc = "start"
    /\ opts = NoOpts
    /\ p = NoPlugin
    /\ nextToken = NilToken
    /\ messages = NilSlice
    /\ now \in StartClocks
    /\ requests = <<>>
    /\ responses = <<>>
    /\ cwCkr = NoChecker
    /\ cwExit = NoExit

\* the plugin is not running (specifications of the other plugins)
CwIdle ==
    /\ cwPc = "idle"
    /\ opts = NoOpts
    /\ p = NoPlugin
    /\ nextToken = NilToken
    /\ messages = NilSlice
    /\ now = 0
    /\ requests = <<>>
    /\ responses = <<>>
    /\ cwCkr = NoChecker
    /\ cwExit = NoExit

\* newCloudwatchLogsPlugin: flags.ParseArgs fails, the process exits with 1
ParseArgsFails ==
    /\ cwPc = "start"
    /\ cwPc' = "exit"
    /\ cwExit' = <<1>>
    /\ UNCHANGED <<opts, p, nextToken, messages, now, requests, responses, cwCkr>>
    /\ UNCHANGED <<ntpVars, myVars, evalVars, pipeVars>>

\* newCloudwatchLogsPlugin: createService fails, run reports UNKNOWN
CreateServiceFails ==
    /\ cwPc = "start"
    /\ opts' \in ParsedOpts
    /\ cwCkr' = UnknownChecker(ErrSession)
    /\ cwPc' = "done"
    /\ UNCHANGED <<p, nextToken, messages, now, requests, responses, cwExit>>
    /\ UNCHANGED <<ntpVars, myVars, evalVars, pipeVars>>

\* newCloudwatchLogsPlugin succeeds, cloudwatchLogsPlugin.run is entered
NewCloudwatchLogsPlugin ==
    /\ cwPc = "start"
    /\ opts' \in ParsedOpts
    /\ p' = PluginFromOpts(opts')
    /\ nextToken' = NilToken
    /\ messages' = NilSlice
    /\ cwPc' = "loop"
    /\ UNCHANGED <<now, requests, responses, cwCkr, cwExit>>
    /\ UNCHANGED <<ntpVars, myVars, evalVars, pipeVars>>

\* one iteration of the loop of cloudwatchLogsPlugin.run; when the loop ends,
\* the rest of run(args) up to its return
FilterLogEvents ==
    /\ cwPc = "loop"
    /\ \E out \in ServiceAnswers(Len(requests) + 1) :
         /\ requests' = Append(requests, FilterLogEventsInput(p, nextToken, now))
         /\ responses' = Append(responses, out)
         /\ IF out.err # NoError
              THEN /\ messages' = NilSlice
                   /\ cwCkr' = UnknownChecker(out.err)
                   /\ cwPc' = "done"
                   /\ UNCHANGED nextToken
              ELSE /\ messages' = AppendEvents(messages, out.Events)
                   /\ IF IsLastPage(out)
                        THEN /\ cwCkr' = CheckerOf(p, messages')
                             /\ cwPc' = "done"
                             /\ UNCHANGED nextToken
                        ELSE /\ nextToken' = out.NextToken
                             /\ cwPc' = "sleep"
                             /\ UNCHANGED cwCkr
    /\ UNCHANGED <<opts, p, now, cwExit>>
    /\ UNCHANGED <<ntpVars, myVars, evalVars, pipeVars>>

\* time.Sleep(250 * time.Millisecond)
Sleep ==
    /\ cwPc = "sleep"
    /\ \E d \in SleepDurations : now' = now + d
    /\ cwPc' = "loop"
    /\ UNCHANGED <<opts, p, nextToken, messages, requests, responses, cwCkr, cwExit>>
    /\ UNCHANGED <<ntpVars, myVars, evalVars, pipeVars>>

(***************************************************************************)
(* Text operations of the Go standard library, on sequences of characters  *)
(***************************************************************************)
Digits == {"0", "1", "2", "3", "4", "5", "6", "7", "8", "9"}

DigitValue(c) ==
    CASE c = "0" -> 0 [] c = "1" -> 1 [] c = "2" -> 2 [] c = "3" -> 3 [] c = "4" -> 4
      [] c = "5" -> 5 [] c = "6" -> 6 [] c = "7" -> 7 [] c = "8" -> 8 [] c = "9" -> 9

\* unicode.IsSpace on the characters the model uses
Whitespace == {" ", "\t", "\n", "\r"}

\* strings.HasPrefix(s, prefix); strings.Index(s, prefix) == 0 is the same test
HasPrefix(s, prefix) ==
    /\ Len(s) >= Len(prefix)
    /\ SubSeq(s, 1, Len(prefix)) = prefix

\* strings.HasSuffix(s, suffix)
HasSuffix(s, suffix) ==
    /\ Len(s) >= Len(suffix)
    /\ SubSeq(s, Len(s) - Len(suffix) + 1, Len(s)) = suffix

\* strings.Split(s, sep) for a one-character separator: always at least one part
RECURSIVE SplitAcc(_, _, _)
SplitAcc(s, sep, cur) ==
    IF s = <<>> THEN <<cur>>
    ELSE IF Head(s) = sep THEN <<cur>> \o SplitAcc(Tail(s), sep, <<>>)
    ELSE SplitAcc(Tail(s), sep, Append(cur, Head(s)))

Split(s, sep) == SplitAcc(s, sep, <<>>)

\* strings.Join(parts, sep) for a one-character separator
RECURSIVE Join(_, _)
Join(parts, sep) ==
    IF parts = <<>> THEN <<>>
    ELSE IF Len(parts) = 1 THEN parts[1]
    ELSE parts[1] \o <<sep>> \o Join(Tail(parts), sep)

\* strings.Trim(s, "\n")
RECURSIVE TrimLeftNewline(_)
TrimLeftNewline(s) ==
    IF s # <<>> /\ Head(s) = "\n" THEN TrimLeftNewline(Tail(s)) ELSE s

RECURSIVE TrimRightNewline(_)
TrimRightNewline(s) ==
    IF s # <<>> /\ s[Len(s)] = "\n" THEN TrimRightNewline(SubSeq(s, 1, Len(s) - 1)) ELSE s

TrimNewline(s) == TrimRightNewline(TrimLeftNewline(s))

\* strings.Fields(s): the maximal runs of non-space characters
RECURSIVE FieldsAcc(_, _)
FieldsAcc(s, cur) ==
    IF s = <<>> THEN (IF cur = <<>> THEN <<>> ELSE <<cur>>)
    ELSE IF Head(s) \in Whitespace
           THEN (IF cur = <<>> THEN <<>> ELSE <<cur>>) \o FieldsAcc(Tail(s), <<>>)
           ELSE FieldsAcc(Tail(s), Append(cur, Head(s)))

Fields(s) == FieldsAcc(s, <<>>)

\* the tokens of a bufio.Scanner with the default split function ScanLines:
\* lines end at "\n", one trailing "\r" is dropped, and text after the last
\* "\n" is a final line only when it is not empty (all lines are far below
\* bufio.MaxScanTokenSize)
DropCR(line) ==
    IF line # <<>> /\ line[Len(line)] = "\r" THEN SubSeq(line, 1, Len(line) - 1) ELSE line

ScanLines(s) ==
    LET parts == Split(s, "\n")
        kept == IF parts[Len(parts)] = <<>> THEN SubSeq(parts, 1, Len(parts) - 1) ELSE parts
    IN  [i \in 1..Len(kept) |-> DropCR(kept[i])]

\* filepath.Base(path) on Unix
RECURSIVE StripTrailingSlashes(_)
StripTrailingSlashes(s) ==
    IF s # <<>> /\ s[Len(s)] = "/" THEN StripTrailingSlashes(SubSeq(s, 1, Len(s) - 1)) ELSE s

Base(path) ==
    IF path = <<>> THEN <<".">>
    ELSE LET q == StripTrailingSlashes(path)
             parts == Split(q, "/")
         IN  IF q = <<>> THEN <<"/">> ELSE parts[Len(parts)]

AllDigits(s) == \A i \in 1..Len(s) : s[i] \in Digits

\* the value of a run of decimal digits
RECURSIVE DecimalValue(_)
DecimalValue(s) ==
    IF s = <<>> THEN 0
    ELSE 10 * DecimalValue(SubSeq(s, 1, Len(s) - 1)) + DigitValue(s[Len(s)])

\* strconv.Atoi(s): an optional sign and at least one decimal digit
Atoi(s) ==
    LET signed == s # <<>> /\ Head(s) \in {"+", "-"}
        body == IF signed THEN Tail(s) ELSE s
    IN  IF body = <<>> \/ ~AllDigits(body) THEN [ok |-> FALSE, val |-> 0]
        ELSE [ok |-> TRUE,
              val |-> IF signed /\ Head(s) = "-" THEN 0 - DecimalValue(body)
                      ELSE DecimalValue(body)]

\* float64 values are exact fixed-point numbers, in units of 1/Scale
Scale == 1000 * 1000

\* the value, in 1/Scale units, of the digits after the decimal point
RECURSIVE FractionValue(_, _)
FractionValue(s, unit) ==
    IF s = <<>> THEN 0
    ELSE DigitValue(Head(s)) * (unit \div 10) + FractionValue(Tail(s), unit \div 10)

\* strconv.ParseFloat(s, 64) on decimal text without exponent: an optional
\* sign, digits with at most one decimal point, at least one digit
ParseFloat(s) ==
    LET signed == s # <<>> /\ Head(s) \in {"+", "-"}
        body == IF signed THEN Tail(s) ELSE s
        parts == Split(body, ".")
        whole == parts[1]
        frac == IF Len(parts) = 2 THEN parts[2] ELSE <<>>
        valid == /\ Len(parts) <= 2
                 /\ AllDigits(whole) /\ AllDigits(frac)
                 /\ whole \o frac # <<>>
        mag == DecimalValue(whole) * Scale + FractionValue(frac, Scale)
    IN  IF ~valid THEN [ok |-> FALSE, val |-> 0]
        ELSE [ok |-> TRUE,
              val |-> IF signed /\ Head(s) = "-" THEN 0 - mag ELSE mag]

\* the message of the *strconv.NumError of a failed ParseFloat / Atoi
NumErrorText(fn, s) ==
    <<"s", "t", "r", "c", "o", "n", "v", ".">> \o fn \o <<":", " ", "p", "a", "r", "s", "i", "n", "g", " ", "\"">> \o s \o <<"\"", ":", " ", "i", "n", "v", "a", "l", "i", "d", " ", "s", "y", "n", "t", "a", "x">>

\* math.Abs
Abs(x) == IF x < 0 THEN 0 - x ELSE x

(***************************************************************************)
(* check-ntpoffset                                                         *)
(***************************************************************************)
\* default:"100" of opts.Crit and default:"50" of opts.Warn
DefaultCrit == <<"1", "0", "0">>
DefaultWarn == <<"5", "0">>
\* texts given to --critical / --warning on the command line
CritArgs == { <<"7", "5", ".", "5">>, <<"a", "b", "c">> }
WarnArgs == { <<"9", "0">> }

\* all sequences over S of length lo..hi
SeqsOf(S, lo, hi) == UNION { [1..n -> S] : n \in lo..hi }

\* text of the lines, each ended by a newline
RECURSIVE Unlines(_)
Unlines(lines) ==
    IF lines = <<>> THEN <<>> ELSE Head(lines) \o <<"\n">> \o Unlines(Tail(lines))

\* error texts of os/exec
ErrExec == <<"e", "x", "e", "c", ":", " ", "n", "o", "t", " ", "f", "o", "u", "n", "d">>
ErrExitStatus == <<"e", "x", "i", "t", " ", "s", "t", "a", "t", "u", "s", " ", "1">>
ErrNoNtp == <<"i", "t", " ", "s", "e", "e", "m", "s", " ", "n", "o", " ", "n", "t", "p", " ", "d", "a", "e", "m", "o", "n", " ", "i", "s", " ", "r", "u", "n", "n", "i", "n", "g">>
ErrNtpdDown == <<"c", "o", "u", "l", "d", "n", "'", "t", " ", "g", "e", "t", " ", "n", "t", "p", " ", "o", "f", "f", "s", "e", "t", ".", " ", "n", "t", "p", "d", " ", "p", "r", "o", "c", "e", "s", "s", " ", "m", "a", "y", " ", "b", "e", " ", "d", "o", "w", "n">>
ErrChronyFormat == <<"f", "a", "i", "l", "e", "d", " ", "t", "o", " ", "g", "e", "t", " ", "n", "t", "p", " ", "o", "f", "f", "s", "e", "t">>

\* fmt.Errorf("unsupported ntp daemon %q", ntpdName), for names without
\* characters that %q escapes
ErrUnsupported(name) == <<"u", "n", "s", "u", "p", "p", "o", "r", "t", "e", "d", " ", "n", "t", "p", " ", "d", "a", "e", "m", "o", "n", " ", "\"">> \o name \o <<"\"">>

\* a subprocess as withCmd sees it: whether it can be started, the lines it
\* writes, the text of them, and the result of waiting for its exit
NoCmd == [startErr |-> NoError, lines |-> <<>>, out |-> <<>>, waitErr |-> NoError]

CmdRuns(outputs) ==
    { [startErr |-> ErrExec, lines |-> <<>>, out |-> <<>>, waitErr |-> NoError] }
    \cup { [startErr |-> NoError, lines |-> o.lines, out |-> o.out, waitErr |-> w] :
             o \in outputs, w \in {NoError, ErrExitStatus} }

\* lines of `lsof -i:123`
LsofLines ==
    { <<"C", "O", "M", "M", "A", "N", "D", " ", "P", "I", "D", " ", "U", "S", "E", "R">>,
      <<"n", "t", "p", "d", " ", "8", "1", "2", " ", "n", "t", "p">>,
      <<"c", "h", "r", "o", "n", "y", "d", " ", "7", "0", "0", " ", "c", "h", "r", "o", "n", "y">>,
      <<"/", "u", "s", "r", "/", "s", "b", "i", "n", "/", "n", "t", "p", "d", " ", "8", "1", "2", " ", "n", "t", "p">>,
      <<"t", "i", "m", "e", "s", "y", "n", "c", "d", " ", "5", " ", "r", "o", "o", "t">>,
      <<>>,
      <<" ", " ">> }
\* lines of `ps -eo comm`
PsLines ==
    { <<"C", "O", "M", "M", "A", "N", "D">>,
      <<"s", "s", "h", "d">>,
      <<"n", "t", "p", "d">>,
      <<"c", "h", "r", "o", "n", "y", "d">>,
      <<"/", "u", "s", "r", "/", "s", "b", "i", "n", "/", "c", "h", "r", "o", "n", "y", "d">>,
      <<"c", "h", "r", "o", "n", "y", "d", "-", "h", "e", "l", "p", "e", "r">> }
\* lines of `ntpq -c "rv 0 offset"`
NtpqLines ==
    { <<"a", "s", "s", "I", "D", "=", "0", " ", "s", "t", "a", "t", "u", "s", "=", "0", "6", "f", "4", " ", ".", ".", ".">>,
      <<"x", "a", "s", "s", "I", "D", "=", "0">>,
      <<"o", "f", "f", "s", "e", "t", "=", "0", ".", "1", "8", "0">>,
      <<"o", "f", "f", "s", "e", "t", "=", "1", "2", ".", "5">>,
      <<"o", "f", "f", "s", "e", "t", "=", "-", "7", "5", ".", "5">>,
      <<>>,
      <<"o", "f", "f", "s", "e", "t">>,
      <<"a", "=", "1", "=", "2">>,
      <<"o", "f", "f", "s", "e", "t", "=", "a", "b", "c">> }
\* lines of `chronyc tracking`
ChronyLines ==
    { <<"L", "a", "s", "t", " ", "o", "f", "f", "s", "e", "t", " ", " ", " ", " ", " ", ":", " ", "-", "0", ".", "0", "0", "0", "1", "2", "3", " ", "s", "e", "c", "o", "n", "d", "s">>,
      <<"L", "a", "s", "t", " ", "o", "f", "f", "s", "e", "t", " ", " ", " ", " ", " ", ":", " ", "+", "0", ".", "0", "7", "5", "5", " ", "s", "e", "c", "o", "n", "d", "s">>,
      <<"L", "a", "s", "t", " ", "o", "f", "f", "s", "e", "t", " ", ":", " ", "0", ".", "0", "5", " ", "s", "e", "c", "o", "n", "d", "s">>,
      <<"L", "a", "s", "t", " ", "o", "f", "f", "s", "e", "t", " ", ":", " ", "0", ".", "0", "5">>,
      <<"L", "a", "s", "t", " ", "o", "f", "f", "s", "e", "t", " ", ":", " ", "0", ".", "0", "5", " ", "s", "e", "c", "o", "n", "d", "s", " ", "f", "a", "s", "t">>,
      <<"L", "a", "s", "t", " ", "o", "f", "f", "s", "e", "t", " ", ":", " ", "a", "b", "c", " ", "s", "e", "c", "o", "n", "d", "s">>,
      <<" ", "L", "a", "s", "t", " ", "o", "f", "f", "s", "e", "t", " ", ":", " ", "0", ".", "0", "5", " ", "s", "e", "c", "o", "n", "d", "s">>,
      <<>> }

\* outputs made of whole lines
LineOutputs(lineSet) ==
    { [lines |-> ls, out |-> Unlines(ls)] : ls \in SeqsOf(lineSet, 0, MaxOutputLines) }
\* outputs of ntpq: the parts that newlines separate, the last one not ended
\* by a newline (an output ending in a newline has an empty last part)
PartOutputs(lineSet) ==
    { [lines |-> ls, out |-> Join(ls, "\n")] : ls \in SeqsOf(lineSet, 1, MaxOutputLines + 1) }

\* withCmd(cmd, fn), given the error fn returns when it is called
WithCmd(cmd, fnErr) ==
    IF cmd.startErr # NoError THEN cmd.startErr
    ELSE IF fnErr # NoError THEN fnErr
    ELSE cmd.waitErr

\* the callback of the privileged path of detectNTPDname
DetectPrivilegedFn(out) ==
    LET lines == ScanLines(out) IN
    IF Len(lines) >= 2
      THEN LET line == lines[2]
               fields == Fields(line)
           IN  IF line = <<>> THEN [name |-> <<>>, err |-> ErrNoNtp, panic |-> FALSE]
               ELSE IF fields = <<>> THEN [name |-> <<>>, err |-> NoError, panic |-> TRUE]
               ELSE [name |-> Base(fields[1]), err |-> NoError, panic |-> FALSE]
      ELSE [name |-> <<>>, err |-> ErrNoNtp, panic |-> FALSE]

DetectUnprivilegedFnIgnoringLookPath(out, lookPathOk) ==
    LET lines == ScanLines(out)
        hits == { i \in 1..Len(lines) : HasSuffix(lines[i], <<"c", "h", "r", "o", "n", "y", "d">>) }
    IN  IF hits # {}
          THEN [name |-> <<"c", "h", "r", "o", "n", "y", "d">>, err |-> NoError, panic |-> FALSE]
          ELSE [name |-> <<"n", "t", "p", "d">>, err |-> NoError, panic |-> FALSE]

\* the callback of the unprivileged path of detectNTPDname
DetectUnprivilegedFn(out, lookPathOk) ==
    LET lines == ScanLines(out)
        hits == { i \in 1..Len(lines) : HasSuffix(lines[i], <<"c", "h", "r", "o", "n", "y", "d">>) }
    IN  IF hits # {} /\ lookPathOk
          THEN [name |-> <<"c", "h", "r", "o", "n", "y", "d">>, err |-> NoError, panic |-> FALSE]
          ELSE [name |-> <<"n", "t", "p", "d">>, err |-> NoError, panic |-> FALSE]

\* detectNTPDname
DetectNTPDname(getuid, cmd, lookPathOk) ==
    IF cmd.startErr # NoError
      THEN [name |-> <<>>, err |-> cmd.startErr, panic |-> FALSE]
      ELSE LET r == IF getuid = 0 THEN DetectPrivilegedFn(cmd.out)
                    ELSE DetectUnprivilegedFn(cmd.out, lookPathOk)
           IN  [name |-> r.name, err |-> WithCmd(cmd, r.err), panic |-> r.panic]

ParseNTPOffsetFromNTPDAnyIndex(output) ==
    LET lines == Split(output, "\n")
        contains == \E i \in 1..Len(lines[1]) :
                       HasPrefix(SubSeq(lines[1], i, Len(lines[1])), <<"a", "s", "s", "I", "D", "=", "0">>)
        chosen == IF Len(lines) = 2 THEN [ok |-> TRUE, line |-> lines[1]]
                  ELSE IF Len(lines) = 3 /\ contains
                         THEN [ok |-> TRUE, line |-> lines[2]]
                  ELSE [ok |-> FALSE, line |-> <<>>]
        o == Split(chosen.line, "=")
    IN  IF ~chosen.ok THEN [offset |-> 0, err |-> ErrNtpdDown]
        ELSE IF Len(o) # 2 THEN [offset |-> 0, err |-> ErrNtpdDown]
        ELSE LET text == TrimNewline(o[2])
                 f == ParseFloat(text)
             IN  IF f.ok THEN [offset |-> f.val, err |-> NoError]
                 ELSE [offset |-> 0, err |-> NumErrorText(<<"P", "a", "r", "s", "e", "F", "l", "o", "a", "t">>, text)]

\* parseNTPOffsetFromNTPD
ParseNTPOffsetFromNTPD(output) ==
    LET lines == Split(output, "\n")
        chosen == IF Len(lines) = 2 THEN [ok |-> TRUE, line |-> lines[1]]
                  ELSE IF Len(lines) = 3 /\ HasPrefix(lines[1], <<"a", "s", "s", "I", "D", "=", "0">>)
                         THEN [ok |-> TRUE, line |-> lines[2]]
                  ELSE [ok |-> FALSE, line |-> <<>>]
        o == Split(chosen.line, "=")
    IN  IF ~chosen.ok THEN [offset |-> 0, err |-> ErrNtpdDown]
        ELSE IF Len(o) # 2 THEN [offset |-> 0, err |-> ErrNtpdDown]
        ELSE LET text == TrimNewline(o[2])
                 f == ParseFloat(text)
             IN  IF f.ok THEN [offset |-> f.val, err |-> NoError]
                 ELSE [offset |-> 0, err |-> NumErrorText(<<"P", "a", "r", "s", "e", "F", "l", "o", "a", "t">>, text)]

ParseNTPOffsetFromChronySkipping(out) ==
    LET lines == ScanLines(out)
        hits == { i \in 1..Len(lines) :
                    HasPrefix(lines[i], <<"L", "a", "s", "t", " ", "o", "f", "f", "s", "e", "t">>) /\ Len(Fields(lines[i])) = 5 }
    IN  IF hits = {} THEN [offset |-> 0, err |-> ErrChronyFormat]
        ELSE LET line == lines[CHOOSE i \in hits : \A j \in hits : i <= j]
                 flds == Fields(line)
                 f == ParseFloat(flds[4])
             IN  IF f.ok THEN [offset |-> f.val * 1000, err |-> NoError]
                 ELSE [offset |-> 0, err |-> NumErrorText(<<"P", "a", "r", "s", "e", "F", "l", "o", "a", "t">>, flds[4])]

\* parseNTPOffsetFromChrony
ParseNTPOffsetFromChrony(out) ==
    LET lines == ScanLines(out)
        hits == { i \in 1..Len(lines) : HasPrefix(lines[i], <<"L", "a", "s", "t", " ", "o", "f", "f", "s", "e", "t">>) }
    IN  IF hits = {} THEN [offset |-> 0, err |-> ErrChronyFormat]
        ELSE LET line == lines[CHOOSE i \in hits : \A j \in hits : i <= j]
                 flds == Fields(line)
             IN  IF Len(flds) # 5 THEN [offset |-> 0, err |-> ErrChronyFormat]
                 ELSE LET f == ParseFloat(flds[4])
                      IN  IF f.ok THEN [offset |-> f.val * 1000, err |-> NoError]
                          ELSE [offset |-> 0,
                                err |-> NumErrorText(<<"P", "a", "r", "s", "e", "F", "l", "o", "a", "t">>, flds[4])]

\* getNTPOffsetFromNTPD / getNTPOffsetFromChrony: the parser runs as the
\* callback of withCmd; its offset is kept whatever withCmd returns
GetNTPOffsetFrom(r, cmd) ==
    IF cmd.startErr # NoError THEN [offset |-> 0, err |-> cmd.startErr]
    ELSE [offset |-> r.offset, err |-> WithCmd(cmd, r.err)]

\* the text of a natural number
RECURSIVE NatText(_)
NatText(n) ==
    LET d == <<SubSeq(<<"0", "1", "2", "3", "4", "5", "6", "7", "8", "9">>,
                      (n % 10) + 1, (n % 10) + 1)[1]>>
    IN  IF n < 10 THEN d ELSE NatText(n \div 10) \o d

\* fmt's %f: six digits after the decimal point
FormatF(x) ==
    LET a == Abs(x)
        frac == NatText(Scale + (a % Scale))
    IN  (IF x < 0 THEN <<"-">> ELSE <<>>) \o NatText(a \div Scale) \o <<".">> \o Tail(frac)

NtpStatusSigned(offset, o) ==
    IF o.Crit < offset THEN CRITICAL
    ELSE IF o.Warn < offset THEN WARNING
    ELSE OK

\* the comparisons of run on math.Abs(offset)
NtpStatus(offset, o) ==
    IF o.Crit < Abs(offset) THEN CRITICAL
    ELSE IF o.Warn < Abs(offset) THEN WARNING
    ELSE OK

\* the message run builds for the status
NtpMessage(offset, o) ==
    IF o.Crit < Abs(offset)
      THEN <<"n", "t", "p", " ", "o", "f", "f", "s", "e", "t", " ", "i", "s", " ", "o", "v", "e", "r", " ">> \o FormatF(Abs(offset)) \o <<"(", "a", "c", "t", "u", "a", "l", ")", " ", ">", " ">>
           \o FormatF(o.Crit) \o <<"(", "t", "h", "r", "e", "s", "h", "o", "l", "d", ")">>
    ELSE IF o.Warn < Abs(offset)
      THEN <<"n", "t", "p", " ", "o", "f", "f", "s", "e", "t", " ", "i", "s", " ", "o", "v", "e", "r", " ">> \o FormatF(Abs(offset)) \o <<"(", "a", "c", "t", "u", "a", "l", ")", " ", ">", " ">>
           \o FormatF(o.Warn) \o <<"(", "t", "h", "r", "e", "s", "h", "o", "l", "d", ")">>
    ELSE <<"n", "t", "p", " ", "o", "f", "f", "s", "e", "t", " ", "i", "s", " ">> \o FormatF(Abs(offset)) \o <<"(", "a", "c", "t", "u", "a", "l", ")", " ", "<", " ">>
         \o FormatF(o.Warn) \o <<"(", "w", "a", "r", "n", "i", "n", "g", " ", "t", "h", "r", "e", "s", "h", "o", "l", "d", ")", ",", " ">>
         \o FormatF(o.Crit) \o <<"(", "c", "r", "i", "t", "i", "a", "l", " ", "t", "h", "r", "e", "s", "h", "o", "l", "d", ")">>

NtpCheckerIgnoringErr(r, o) ==
    NewChecker(NtpStatus(r.offset, o), NtpMessage(r.offset, o))

\* run, from the return of getNtpOffset on
NtpChecker(r, o) ==
    IF r.err # NoError THEN NewChecker(UNKNOWN, r.err)
    ELSE NewChecker(NtpStatus(r.offset, o), NtpMessage(r.offset, o))

NoNtpArgs == [Crit |-> <<>>, Warn |-> <<>>]
NoNtpOpts == [Crit |-> 0, Warn |-> 0]
NoResult == [offset |-> 0, err |-> NoError]
NoDetect == [name |-> <<>>, err |-> NoError, panic |-> FALSE]

NtpInit ==
    /\ ntpPc = "start"
    /\ ntpArgs = NoNtpArgs
    /\ ntpOpts = NoNtpOpts
    /\ uid = 0
    /\ lookPath = FALSE
    /\ detectCmd = NoCmd
    /\ detected = NoDetect
    /\ offsetCmd = NoCmd
    /\ parsed = NoResult
    /\ measured = NoResult
    /\ ntpCkr = NoChecker
    /\ ntpExit = NoExit

NtpIdle ==
    /\ ntpPc = "idle"
    /\ ntpArgs = NoNtpArgs
    /\ ntpOpts = NoNtpOpts
    /\ uid = 0
    /\ lookPath = FALSE
    /\ detectCmd = NoCmd
    /\ detected = NoDetect
    /\ offsetCmd = NoCmd
    /\ parsed = NoResult
    /\ measured = NoResult
    /\ ntpCkr = NoChecker
    /\ ntpExit = NoExit

\* run: flags.ParseArgs(&opts, args); a value that is no number ends the
\* process with exit code 1
NtpParseArgs ==
    /\ ntpPc = "start"
    /\ \E c \in {<<>>} \cup CritArgs, w \in {<<>>} \cup WarnArgs :
         LET crit == ParseFloat(IF c = <<>> THEN DefaultCrit ELSE c)
             warn == ParseFloat(IF w = <<>> THEN DefaultWarn ELSE w)
         IN  /\ ntpArgs' = [Crit |-> c, Warn |-> w]
             /\ IF crit.ok /\ warn.ok
                  THEN /\ ntpOpts' = [Crit |-> crit.val, Warn |-> warn.val]
                       /\ ntpPc' = "detect"
                       /\ UNCHANGED ntpExit
                  ELSE /\ ntpPc' = "exit"
                       /\ ntpExit' = <<1>>
                       /\ UNCHANGED ntpOpts
    /\ UNCHANGED <<uid, lookPath, detectCmd, detected, offsetCmd, parsed, measured, ntpCkr>>
    /\ UNCHANGED <<cwVars, myVars, evalVars, pipeVars>>

\* getNtpOffset up to its switch: detectNTPDname with its subprocess; when
\* detection fails, the rest of run up to its return
Detect ==
    /\ ntpPc = "detect"
    /\ \E u \in {0, 1000} :
       \E lp \in (IF u = 0 THEN {FALSE} ELSE BOOLEAN),
          cmd \in CmdRuns(LineOutputs(IF u = 0 THEN LsofLines ELSE PsLines)) :
         LET d == DetectNTPDname(u, cmd, lp) IN
         /\ uid' = u
         /\ lookPath' = lp
         /\ detectCmd' = cmd
         /\ detected' = d
         /\ IF d.panic
              THEN /\ ntpPc' = "panic"
                   /\ UNCHANGED <<measured, ntpCkr>>
            ELSE IF d.err # NoError
              THEN /\ measured' = [offset |-> 0, err |-> d.err]
                   /\ ntpCkr' = NtpChecker(measured', ntpOpts)
                   /\ ntpPc' = "done"
            ELSE /\ ntpPc' = "switch"
                 /\ UNCHANGED <<measured, ntpCkr>>
    /\ UNCHANGED <<ntpArgs, ntpOpts, offsetCmd, parsed, ntpExit>>
    /\ UNCHANGED <<cwVars, myVars, evalVars, pipeVars>>

\* the switch of getNtpOffset: the measurement command is chosen, or the
\* daemon is unsupported and run returns; the detection subprocess is gone
SwitchDaemon ==
    /\ ntpPc = "switch"
    /\ detectCmd' = NoCmd
    /\ IF detected.name \in { <<"n", "t", "p", "d">>, <<"c", "h", "r", "o", "n", "y", "d">> }
         THEN /\ ntpPc' = "measure"
              /\ UNCHANGED <<measured, ntpCkr>>
         ELSE /\ measured' = [offset |-> 0, err |-> ErrUnsupported(detected.name)]
              /\ ntpCkr' = NtpChecker(measured', ntpOpts)
              /\ ntpPc' = "done"
    /\ UNCHANGED <<ntpArgs, ntpOpts, uid, lookPath, detected, offsetCmd, parsed, ntpExit>>
    /\ UNCHANGED <<cwVars, myVars, evalVars, pipeVars>>

\* getNTPOffsetFromNTPD with its subprocess, then the rest of run
MeasureNTPD ==
    /\ ntpPc = "measure"
    /\ detected.name = <<"n", "t", "p", "d">>
    /\ \E cmd \in CmdRuns(PartOutputs(NtpqLines)) :
         /\ offsetCmd' = cmd
         /\ parsed' = (IF cmd.startErr # NoError THEN NoResult
                       ELSE ParseNTPOffsetFromNTPD(cmd.out))
         /\ measured' = GetNTPOffsetFrom(parsed', cmd)
    /\ ntpCkr' = NtpChecker(measured', ntpOpts)
    /\ ntpPc' = "done"
    /\ UNCHANGED <<ntpArgs, ntpOpts, uid, lookPath, detectCmd, detected, ntpExit>>
    /\ UNCHANGED <<cwVars, myVars, evalVars, pipeVars>>

\* getNTPOffsetFromChrony with its subprocess, then the rest of run
MeasureChrony ==
    /\ ntpPc = "measure"
    /\ detected.name = <<"c", "h", "r", "o", "n", "y", "d">>
    /\ \E cmd \in CmdRuns(LineOutputs(ChronyLines)) :
         /\ offsetCmd' = cmd
         /\ parsed' = (IF cmd.startErr # NoError THEN NoResult
                       ELSE ParseNTPOffsetFromChrony(cmd.out))
         /\ measured' = GetNTPOffsetFrom(parsed', cmd)
    /\ ntpCkr' = NtpChecker(measured', ntpOpts)
    /\ ntpPc' = "done"
    /\ UNCHANGED <<ntpArgs, ntpOpts, uid, lookPath, detectCmd, detected, ntpExit>>
    /\ UNCHANGED <<cwVars, myVars, evalVars, pipeVars>>

(***************************************************************************)
(* check-mysql                                                             *)
(***************************************************************************)
\* var commands: subcommand name -> check function
Commands ==
    { [name |-> <<"r", "e", "p", "l", "i", "c", "a", "t", "i", "o", "n">>, fn |-> "checkReplication"],
      [name |-> <<"c", "o", "n", "n", "e", "c", "t", "i", "o", "n">>, fn |-> "checkConnection"],
      [name |-> <<"u", "p", "t", "i", "m", "e">>, fn |-> "checkUptime"],
      [name |-> <<"r", "e", "a", "d", "o", "n", "l", "y">>, fn |-> "checkReadOnly"] }

CommandNames == { e.name : e \in Commands }

\* words a command line is made of
ArgWords ==
    { <<"r", "e", "p", "l", "i", "c", "a", "t", "i", "o", "n">>, <<"c", "o", "n", "n", "e", "c", "t", "i", "o", "n">>, <<"u", "p", "t", "i", "m", "e">>, <<"r", "e", "a", "d", "o", "n", "l", "y">>,
      <<"s", "t", "a", "t", "u", "s">>, <<"-", "H">>, <<"d", "b">>, <<>> }

ArgLists == SeqsOf(ArgWords, 0, MaxArgs)

RECURSIVE SeparateSubFirstNonFlagFrom(_, _)
SeparateSubFirstNonFlagFrom(before, rest) ==
    IF rest = <<>> THEN [subCmd |-> <<>>, argv |-> before]
    ELSE IF HasPrefix(Head(rest), <<"-">>)
      THEN SeparateSubFirstNonFlagFrom(Append(before, Head(rest)), Tail(rest))
    ELSE [subCmd |-> Head(rest), argv |-> before \o Tail(rest)]

SeparateSubFirstNonFlag(args) == SeparateSubFirstNonFlagFrom(<<>>, args)

\* separateSub
SeparateSub(args) ==
    IF Len(args) = 0 \/ HasPrefix(args[1], <<"-">>)
      THEN [subCmd |-> <<>>, argv |-> args]
      ELSE [subCmd |-> args[1], argv |-> Tail(args)]

CommandLookupDefaulting(sub) ==
    IF sub = <<>> THEN [ok |-> TRUE, fn |-> "checkConnection"]
    ELSE IF \E e \in Commands : e.name = sub
      THEN [ok |-> TRUE, fn |-> (CHOOSE e \in Commands : e.name = sub).fn]
    ELSE [ok |-> FALSE, fn |-> ""]

\* fn, ok := commands[sub]
CommandLookup(sub) ==
    IF \E e \in Commands : e.name = sub
      THEN [ok |-> TRUE, fn |-> (CHOOSE e \in Commands : e.name = sub).fn]
      ELSE [ok |-> FALSE, fn |-> ""]

\* strings.ToUpper on one ASCII character
LowerCase == <<"a", "b", "c", "d", "e", "f", "g", "h", "i", "j", "k", "l", "m",
               "n", "o", "p", "q", "r", "s", "t", "u", "v", "w", "x", "y", "z">>
UpperCase == <<"A", "B", "C", "D", "E", "F", "G", "H", "I", "J", "K", "L", "M",
               "N", "O", "P", "Q", "R", "S", "T", "U", "V", "W", "X", "Y", "Z">>

ToUpper(c) ==
    IF \E i \in 1..Len(LowerCase) : LowerCase[i] = c
      THEN UpperCase[CHOOSE i \in 1..Len(LowerCase) : LowerCase[i] = c]
      ELSE c

\* fmt.Sprintf("MySQL %s", strings.ToUpper(string(subCmd[0]))+subCmd[1:])
CheckerName(sub) == <<"M", "y", "S", "Q", "L", " ">> \o <<ToUpper(sub[1])>> \o Tail(sub)

\* the statuses a check function may return
Statuses == {OK, WARNING, CRITICAL, UNKNOWN}

\* texts between the dots of a version string
VersionParts ==
    { <<"8">>, <<"0">>, <<"1">>, <<"5">>, <<"7">>, <<"2">>, <<"1", "0">>, <<"+", "3">>, <<"a", "b", "c">>, <<>> }
\* what follows the dotted part
VersionSuffixes == { <<>>, <<"-", "d", "m", "r">>, <<"-">>, <<"-", "d", "m", "r", "-", "l", "o", "g">> }

\* what SELECT VERSION() may return: the dotted parts, the suffix, and the text
VersionTexts ==
    { [parts |-> ps, suffix |-> sf, text |-> Join(ps, ".") \o sf] :
        ps \in SeqsOf(VersionParts, 1, MaxVersionParts), sf \in VersionSuffixes }

ErrQuery == <<"F", "a", "i", "l", "e", "d", " ", "t", "o", " ", "q", "u", "e", "r", "y", " ", "S", "E", "L", "E", "C", "T", " ", "V", "E", "R", "S", "I", "O", "N", "(", ")", ":", " ", "c", "o", "n", "n", "e", "c", "t", "i", "o", "n", " ", "r", "e", "f", "u", "s", "e", "d">>

\* versionError(err) for the error of strconv.Atoi
VersionError(text) == <<"F", "a", "i", "l", "e", "d", " ", "t", "o", " ", "p", "a", "r", "s", "e", " ", "v", "e", "r", "s", "i", "o", "n", ":", " ">> \o NumErrorText(<<"A", "t", "o", "i">>, text)

NoVersion == [major |-> 0, minor |-> 0, patch |-> 0, stability |-> <<>>]
VersionOk(v) == [ok |-> TRUE, version |-> v, err |-> NoError, panic |-> FALSE]
VersionErr(e) == [ok |-> FALSE, version |-> NoVersion, err |-> e, panic |-> FALSE]
\* index out of range: the process aborts
VersionPanic == [ok |-> FALSE, version |-> NoVersion, err |-> NoError, panic |-> TRUE]

GetMySQLVersionZeroOnError(qerr, raw) ==
    IF qerr # NoError THEN VersionErr(qerr)
    ELSE LET splitted == Split(raw, "-")
             stability == IF Len(splitted) > 1 THEN splitted[2] ELSE <<>>
             versionSplitted == Split(splitted[1], ".")
         IN  IF Len(versionSplitted) < 3 THEN VersionPanic
             ELSE VersionOk([major |-> Atoi(versionSplitted[1]).val,
                             minor |-> Atoi(versionSplitted[2]).val,
                             patch |-> Atoi(versionSplitted[3]).val,
                             stability |-> stability])

\* getMySQLVersion, given the error of the query and the text it scanned
GetMySQLVersion(qerr, raw) ==
    IF qerr # NoError THEN VersionErr(qerr)
    ELSE LET splitted == Split(raw, "-")
             stability == IF Len(splitted) > 1 THEN splitted[2] ELSE <<>>
             versionSplitted == Split(splitted[1], ".")
             major == Atoi(versionSplitted[1])
         IN  IF ~major.ok THEN VersionErr(VersionError(versionSplitted[1]))
             ELSE IF Len(versionSplitted) < 2 THEN VersionPanic
             ELSE LET minor == Atoi(versionSplitted[2]) IN
                  IF ~minor.ok THEN VersionErr(VersionError(versionSplitted[2]))
                  ELSE IF Len(versionSplitted) < 3 THEN VersionPanic
                  ELSE LET patch == Atoi(versionSplitted[3]) IN
                       IF ~patch.ok THEN VersionErr(VersionError(versionSplitted[3]))
                       ELSE VersionOk([major |-> major.val, minor |-> minor.val,
                                       patch |-> patch.val, stability |-> stability])

NoRaw == [parts |-> <<>>, suffix |-> <<>>, text |-> <<>>]
NoVersionResult == [ok |-> FALSE, version |-> NoVersion, err |-> NoError, panic |-> FALSE]
NoNamedChecker == [status |-> NONE, name |-> <<>>]

MyInit ==
    /\ myPc = "start"
    /\ osArgs = <<>>
    /\ subCmd = <<>>
    /\ argv = <<>>
    /\ ran = ""
    /\ printed = {}
    /\ myCkr = NoNamedChecker
    /\ myExit = NoExit
    /\ queryErr = NoError
    /\ rawVersion = NoRaw
    /\ version = NoVersionResult

MyVersionInit ==
    /\ myPc = "version"
    /\ osArgs = <<>>
    /\ subCmd = <<>>
    /\ argv = <<>>
    /\ ran = ""
    /\ printed = {}
    /\ myCkr = NoNamedChecker
    /\ myExit = NoExit
    /\ queryErr = NoError
    /\ rawVersion = NoRaw
    /\ version = NoVersionResult

MyIdle ==
    /\ myPc = "idle"
    /\ osArgs = <<>>
    /\ subCmd = <<>>
    /\ argv = <<>>
    /\ ran = ""
    /\ printed = {}
    /\ myCkr = NoNamedChecker
    /\ myExit = NoExit
    /\ queryErr = NoError
    /\ rawVersion = NoRaw
    /\ version = NoVersionResult

\* Do, up to the call of the check function or to the exit of the usage error
Do ==
    /\ myPc = "start"
    /\ \E args \in ArgLists :
         LET sep == SeparateSub(args)
             found == CommandLookup(sep.subCmd)
         IN  /\ osArgs' = args
             /\ subCmd' = sep.subCmd
             /\ argv' = sep.argv
             /\ IF ~found.ok
                  THEN /\ printed' = CommandNames
                       /\ myExit' = <<1>>
                       /\ myPc' = "exit"
                       /\ UNCHANGED ran
                  ELSE /\ ran' = found.fn
                       /\ myPc' = "check"
                       /\ UNCHANGED <<printed, myExit>>
    /\ UNCHANGED <<myCkr, queryErr, rawVersion, version>>
    /\ UNCHANGED <<cwVars, ntpVars, evalVars, pipeVars>>

\* the check function returns its checker; Do names it and exits with its status
CheckerExit ==
    /\ myPc = "check"
    /\ \E st \in Statuses :
         /\ myCkr' = [status |-> st, name |-> CheckerName(subCmd)]
         /\ myExit' = <<ExitCode(st)>>
    /\ myPc' = "exit"
    /\ UNCHANGED <<osArgs, subCmd, argv, ran, printed, queryErr, rawVersion, version>>
    /\ UNCHANGED <<cwVars, ntpVars, evalVars, pipeVars>>

\* a call of getMySQLVersion(db): the query fails
QueryVersionFails ==
    /\ myPc = "version"
    /\ queryErr' = ErrQuery
    /\ version' = GetMySQLVersion(queryErr', rawVersion.text)
    /\ myPc' = "versioned"
    /\ UNCHANGED <<osArgs, subCmd, argv, ran, printed, myCkr, myExit, rawVersion>>
    /\ UNCHANGED <<cwVars, ntpVars, evalVars, pipeVars>>

\* a call of getMySQLVersion(db): the query returns a text
QueryVersion ==
    /\ myPc = "version"
    /\ rawVersion' \in VersionTexts
    /\ version' = GetMySQLVersion(queryErr, rawVersion'.text)
    /\ myPc' = (IF version'.panic THEN "panic" ELSE "versioned")
    /\ UNCHANGED <<osArgs, subCmd, argv, ran, printed, myCkr, myExit, queryErr>>
    /\ UNCHANGED <<cwVars, ntpVars, evalVars, pipeVars>>

(***************************************************************************)
(* The threshold evaluators of check-aws-cloudwatch-logs and of            *)
(* check-ntpoffset as functions of the measurement: two invocations with   *)
(* the same thresholds and two measurements                                *)
(***************************************************************************)
\* thresholds as given on the command line: any integer, in any order
ThresholdLevels == (0 - MaxMeasure)..MaxMeasure
\* len(messages) of the CloudWatch Logs plugin
MessageCounts == 0..MaxMeasure
\* offsets of the NTP plugin, in units of MeasureUnit
OffsetSteps == (0 - MaxMeasure)..MaxMeasure
\* half a millisecond
MeasureUnit == Scale \div 2

EvalInit ==
    /\ evalPc = "start"
    /\ evaluator = ""
    /\ thresholds \in [warn : ThresholdLevels, crit : ThresholdLevels]
    /\ measureA \in OffsetSteps
    /\ measureB \in OffsetSteps
    /\ statusA = NONE
    /\ statusB = NONE

\* the evaluators are not applied (specifications of the plugins)
EvalIdle ==
    /\ evalPc = "idle"
    /\ evaluator = ""
    /\ thresholds = [warn |-> 0, crit |-> 0]
    /\ measureA = 0
    /\ measureB = 0
    /\ statusA = NONE
    /\ statusB = NONE

\* run of check-aws-cloudwatch-logs from `status := checkers.OK` on, for
\* len(messages) = measureA and for len(messages) = measureB
EvaluateCloudwatch ==
    /\ evalPc = "start"
    /\ measureA \in MessageCounts
    /\ measureB \in MessageCounts
    /\ evaluator' = "cloudwatch"
    /\ statusA' = EvalStatus(measureA, thresholds.warn, thresholds.crit)
    /\ statusB' = EvalStatus(measureB, thresholds.warn, thresholds.crit)
    /\ evalPc' = "done"
    /\ UNCHANGED <<thresholds, measureA, measureB>>
    /\ UNCHANGED <<cwVars, ntpVars, myVars, pipeVars>>

\* run of check-ntpoffset from `var chkSt checkers.Status` on, for
\* offset = measureA and for offset = measureB
EvaluateNTP ==
    /\ evalPc = "start"
    /\ evaluator' = "ntp"
    /\ LET o == [Crit |-> thresholds.crit * MeasureUnit, Warn |-> thresholds.warn * MeasureUnit]
       IN  /\ statusA' = NtpStatus(measureA * MeasureUnit, o)
           /\ statusB' = NtpStatus(measureB * MeasureUnit, o)
    /\ evalPc' = "done"
    /\ UNCHANGED <<thresholds, measureA, measureB>>
    /\ UNCHANGED <<cwVars, ntpVars, myVars, pipeVars>>

(***************************************************************************)
(* withCmd of check-ntpoffset step by step: the subprocess writes its      *)
(* output line by line into a pipe of bounded capacity and blocks while    *)
(* the pipe is full; the callback reads from the pipe; cmd.Wait blocks     *)
(* until the subprocess has exited and only then closes the pipe           *)
(***************************************************************************)
\* the commands withCmd is called with, named after the program they run
Callbacks == {"lsof", "ps", "ntpq", "chronyc"}

\* a subprocess writes at most this many lines: enough to overfill the pipe
\* after the callback took a line
MaxPipeOutput == PipeCapacity + 2

\* lines the subprocess of a callback writes
PipeLines(cb) ==
    CASE cb = "lsof" -> { <<"C", "O", "M", "M", "A", "N", "D", " ", "P", "I", "D", " ", "U", "S", "E", "R">>, <<"n", "t", "p", "d", " ", "8", "1", "2", " ", "n", "t", "p">>, <<>>, <<" ", " ">> }
      [] cb = "ps" -> { <<"s", "s", "h", "d">>, <<"c", "h", "r", "o", "n", "y", "d">> }
      [] cb = "ntpq" -> { <<"a", "s", "s", "I", "D", "=", "0">>, <<"o", "f", "f", "s", "e", "t", "=", "1", "2", ".", "5">> }
      [] cb = "chronyc" -> { <<"S", "t", "r", "a", "t", "u", "m", " ", ":", " ", "3">>, <<"L", "a", "s", "t", " ", "o", "f", "f", "s", "e", "t", " ", ":", " ", "+", "0", ".", "0", "7", "5", "5", " ", "s", "e", "c", "o", "n", "d", "s">>, <<"L", "a", "s", "t", " ", "o", "f", "f", "s", "e", "t", " ", ":", " ", "0", ".", "0", "5">> }

\* what a callback does with a line it has scanned (for lsof: with the
\* second line): scan on, return its error (NoError for nil), or abort
CallbackOnLine ==
    [cb \in Callbacks |->
       [line \in PipeLines(cb) |->
          CASE cb = "lsof" ->
                 IF line = <<>> THEN [next |-> "return", err |-> ErrNoNtp]
                 ELSE IF Fields(line) = <<>> THEN [next |-> "panic", err |-> NoError]
                 ELSE [next |-> "return", err |-> NoError]
            [] cb = "ps" ->
                 IF HasSuffix(line, <<"c", "h", "r", "o", "n", "y", "d">>) THEN [next |-> "return", err |-> NoError]
                 ELSE [next |-> "scan", err |-> NoError]
            [] cb = "ntpq" -> [next |-> "scan", err |-> NoError]
            [] cb = "chronyc" ->
                 IF HasPrefix(line, <<"L", "a", "s", "t", " ", "o", "f", "f", "s", "e", "t">>)
                   THEN [next |-> "return",
                         err |-> ParseNTPOffsetFromChrony(Unlines(<<line>>)).err]
                   ELSE [next |-> "scan", err |-> NoError]]]

\* what a callback does with the lines it has got so far, the last of them
\* just scanned; the privileged callback skips the first line
CallbackAfterLine(cb, got) ==
    IF cb = "lsof" /\ Len(got) < 2 THEN [next |-> "scan", err |-> NoError]
    ELSE CallbackOnLine[cb][got[Len(got)]]

\* parseNTPOffsetFromNTPD on the whole output, by the lines of the output
\* (@@ makes the table an explicit function, computed once)
ParseAllOf == [ls \in SeqsOf(PipeLines("ntpq"), 0, MaxPipeOutput) |->
                 ParseNTPOffsetFromNTPD(Unlines(ls)).err] @@ <<>>

\* the error a callback returns when its reader reports the end of the output
CallbackAtEOF(cb, got) ==
    CASE cb = "lsof" -> ErrNoNtp
      [] cb = "ps" -> NoError
      [] cb = "ntpq" -> ParseAllOf[got]
      [] cb = "chronyc" -> ErrChronyFormat

PipeInit ==
    /\ wcPc = "start"
    /\ callback = ""
    /\ child = "none"
    /\ toWrite = <<>>
    /\ pipe = <<>>
    /\ scanBuf = <<>>
    /\ scanned = <<>>
    /\ wcErr = NoError

\* withCmd is not running (specifications of the plugins)
PipeIdle ==
    /\ wcPc = "idle"
    /\ callback = ""
    /\ child = "none"
    /\ toWrite = <<>>
    /\ pipe = <<>>
    /\ scanBuf = <<>>
    /\ scanned = <<>>
    /\ wcErr = NoError

\* withCmd: cmd.StdoutPipe() and cmd.Start() succeed, fn(out) is entered
StartCmd ==
    /\ wcPc = "start"
    /\ \E cb \in Callbacks :
         /\ callback' = cb
         /\ toWrite' \in SeqsOf(PipeLines(cb), 0, MaxPipeOutput)
    /\ child' = "running"
    /\ wcPc' = "fn"
    /\ UNCHANGED <<pipe, scanBuf, scanned, wcErr>>
    /\ UNCHANGED <<cwVars, ntpVars, myVars, evalVars>>

\* withCmd: cmd.Start() fails and its error is returned
StartCmdFails ==
    /\ wcPc = "start"
    /\ callback' \in Callbacks
    /\ wcErr' = ErrExec
    /\ wcPc' = "returned"
    /\ UNCHANGED <<child, toWrite, pipe, scanBuf, scanned>>
    /\ UNCHANGED <<cwVars, ntpVars, myVars, evalVars>>

\* the subprocess writes its next line; it blocks while the pipe is full
ChildWrite ==
    /\ child = "running"
    /\ toWrite # <<>>
    /\ Len(pipe) < PipeCapacity
    /\ pipe' = Append(pipe, Head(toWrite))
    /\ toWrite' = Tail(toWrite)
    /\ UNCHANGED <<wcPc, callback, child, scanBuf, scanned, wcErr>>
    /\ UNCHANGED <<cwVars, ntpVars, myVars, evalVars>>

\* the subprocess has written all its output and exits
ChildExit ==
    /\ child = "running"
    /\ toWrite = <<>>
    /\ child' = "exited"
    /\ UNCHANGED <<wcPc, callback, toWrite, pipe, scanBuf, scanned, wcErr>>
    /\ UNCHANGED <<cwVars, ntpVars, myVars, evalVars>>

\* the reader of the callback (bufio.Scanner, ioutil.ReadAll) has no line
\* left and reads what the pipe holds, or a part of it
ReadPipe ==
    /\ wcPc = "fn"
    /\ scanBuf = <<>>
    /\ pipe # <<>>
    /\ \E k \in 1..Len(pipe) :
         /\ scanBuf' = SubSeq(pipe, 1, k)
         /\ pipe' = SubSeq(pipe, k + 1, Len(pipe))
    /\ UNCHANGED <<wcPc, callback, child, toWrite, scanned, wcErr>>
    /\ UNCHANGED <<cwVars, ntpVars, myVars, evalVars>>

\* the callback gets a line from its reader; when it returns, withCmd
\* returns its error or, for nil, enters cmd.Wait()
ScanLine ==
    /\ wcPc = "fn"
    /\ scanBuf # <<>>
    /\ scanned' = Append(scanned, Head(scanBuf))
    /\ scanBuf' = Tail(scanBuf)
    /\ LET r == CallbackAfterLine(callback, scanned') IN
       CASE r.next = "scan" -> wcPc' = "fn" /\ UNCHANGED wcErr
         [] r.next = "panic" -> wcPc' = "panic" /\ UNCHANGED wcErr
         [] r.next = "return" /\ r.err # NoError -> wcPc' = "returned" /\ wcErr' = r.err
         [] r.next = "return" /\ r.err = NoError -> wcPc' = "wait" /\ UNCHANGED wcErr
    /\ UNCHANGED <<callback, child, toWrite, pipe>>
    /\ UNCHANGED <<cwVars, ntpVars, myVars, evalVars>>

\* the reader of the callback meets the end of the output: the pipe is
\* empty and the subprocess has exited
ScanEOF ==
    /\ wcPc = "fn"
    /\ scanBuf = <<>>
    /\ pipe = <<>>
    /\ child = "exited"
    /\ LET err == CallbackAtEOF(callback, scanned) IN
       IF err # NoError
         THEN wcPc' = "returned" /\ wcErr' = err
         ELSE wcPc' = "wait" /\ UNCHANGED wcErr
    /\ UNCHANGED <<callback, child, toWrite, pipe, scanBuf, scanned>>
    /\ UNCHANGED <<cwVars, ntpVars, myVars, evalVars>>

\* withCmd: cmd.Wait() returns once the subprocess has exited, closes the
\* pipe and gives the exit status
WaitReturns ==
    /\ wcPc = "wait"
    /\ child = "exited"
    /\ wcErr' \in {NoError, ErrExitStatus}
    /\ pipe' = <<>>
    /\ wcPc' = "returned"
    /\ UNCHANGED <<callback, child, toWrite, scanBuf, scanned>>
    /\ UNCHANGED <<cwVars, ntpVars, myVars, evalVars>>

(***************************************************************************)
(* Specifications: one per plugin, the other plugins idle                  *)
(***************************************************************************)
Init ==
    /\ CwInit
    /\ NtpIdle
    /\ MyIdle
    /\ EvalIdle
    /\ PipeIdle

Next ==
    \/ ParseArgsFails
    \/ CreateServiceFails
    \/ NewCloudwatchLogsPlugin
    \/ FilterLogEvents
    \/ Sleep

Spec == Init /\ [][Next]_vars

InitNTP ==
    /\ CwIdle
    /\ NtpInit
    /\ MyIdle
    /\ EvalIdle
    /\ PipeIdle

NextNTP ==
    \/ NtpParseArgs
    \/ Detect
    \/ SwitchDaemon
    \/ MeasureNTPD
    \/ MeasureChrony

SpecNTP == InitNTP /\ [][NextNTP]_vars

InitMySQL ==
    /\ CwIdle
    /\ NtpIdle
    /\ MyInit
    /\ EvalIdle
    /\ PipeIdle

NextMySQL ==
    \/ Do
    \/ CheckerExit

SpecMySQL == InitMySQL /\ [][NextMySQL]_vars

InitVersion ==
    /\ CwIdle
    /\ NtpIdle
    /\ MyVersionInit
    /\ EvalIdle
    /\ PipeIdle

NextVersion ==
    \/ QueryVersionFails
    \/ QueryVersion

SpecVersion == InitVersion /\ [][NextVersion]_vars

InitEval ==
    /\ CwIdle
    /\ NtpIdle
    /\ MyIdle
    /\ EvalInit
    /\ PipeIdle

NextEval ==
    \/ EvaluateCloudwatch
    \/ EvaluateNTP

SpecEval == InitEval /\ [][NextEval]_vars

InitPipe ==
    /\ CwIdle
    /\ NtpIdle
    /\ MyIdle
    /\ EvalIdle
    /\ PipeInit

NextPipe ==
    \/ StartCmd
    \/ StartCmdFails
    \/ ChildWrite
    \/ ChildExit
    \/ ReadPipe
    \/ ScanLine
    \/ ScanEOF
    \/ WaitReturns

\* the operating system runs the process and its subprocess whenever they
\* are not blocked
FairPipe ==
    /\ WF_vars(StartCmd \/ StartCmdFails)
    /\ WF_vars(ChildWrite)
    /\ WF_vars(ChildExit)
    /\ WF_vars(ReadPipe)
    /\ WF_vars(ScanLine)
    /\ WF_vars(ScanEOF)
    /\ WF_vars(WaitReturns)

SpecPipe == InitPipe /\ [][NextPipe]_vars /\ FairPipe

(***************************************************************************)
(* Claims about check-aws-cloudwatch-logs                                  *)
(***************************************************************************)
\* the messages of all responses, in order
RECURSIVE AllEvents(_)
AllEvents(rs) ==
    IF rs = <<>> THEN <<>> ELSE Head(rs).Events \o AllEvents(Tail(rs))

\* run(args) returned and neither the service construction nor a request failed
QuerySucceeded ==
    /\ cwPc = "done"
    /\ p.Service
    /\ \A i \in DOMAIN responses : responses[i].err = NoError

\* some request of the invocation failed
SomeRequestFailed == \E i \in DOMAIN responses : responses[i].err # NoError

\* C1: for successful responses r1..rk where only rk carries no continuation
\* token, the loop issues exactly k requests (it neither stops before the first
\* token-less response nor goes on after it), the first request carries no
\* token, request i+1 carries the token of response i, and the returned slice
\* is the concatenation, in order, of the messages of all k responses.
PaginationFollowsTokens ==
    /\ Len(requests) = Len(responses)
    /\ (requests # <<>> => requests[1].NextToken = NilToken)
    /\ \A i \in 1..(Len(requests) - 1) :
         /\ responses[i].err = NoError
         /\ responses[i].NextToken # NilToken
         /\ requests[i + 1].NextToken = responses[i].NextToken
    /\ (cwPc \in {"loop", "sleep"} =>
          \A i \in DOMAIN responses :
             responses[i].err = NoError /\ responses[i].NextToken # NilToken)
    /\ (QuerySucceeded =>
          /\ responses # <<>>
          /\ responses[Len(responses)].NextToken = NilToken
          /\ messages.elems = AllEvents(responses)
          /\ messages.isNil = (AllEvents(responses) = <<>>))

\* C1 witness: tokens [t1, t2, nil] with message counts [3, 4, 0] give 3
\* requests and 7 messages
PaginationExample ==
    /\ QuerySucceeded
    /\ Len(requests) = 3
    /\ responses[1].NextToken = "t1" /\ Len(responses[1].Events) = 3
    /\ responses[2].NextToken = "t2" /\ Len(responses[2].Events) = 4
    /\ responses[3].NextToken = NilToken /\ Len(responses[3].Events) = 0
    /\ requests[2].NextToken = "t1" /\ requests[3].NextToken = "t2"
    /\ LenSlice(messages) = 7

\* C2: invoked with --warning-over w --critical-over c, a successful query
\* with n matched messages is CRITICAL if n > c, else WARNING if n > w, else OK.
ThresholdsFromCommandLine ==
    QuerySucceeded =>
        LET n == Len(AllEvents(responses)) IN
        cwCkr.status = (IF n > opts.CriticalOver THEN CRITICAL
                        ELSE IF n > opts.WarningOver THEN WARNING
                        ELSE OK)

\* C3: a failing request or a failing service construction ends the
\* invocation: the failed request is the last one, the accumulated messages
\* are dropped and the checker is UNKNOWN with the error text.
FailureIsUnknown ==
    /\ (SomeRequestFailed =>
          /\ cwPc = "done"
          /\ Len(requests) = Len(responses)
          /\ \A i \in 1..(Len(responses) - 1) : responses[i].err = NoError
          /\ messages = NilSlice
          /\ cwCkr = NewChecker(UNKNOWN, responses[Len(responses)].err))
    /\ (cwPc = "done" /\ ~p.Service =>
          /\ requests = <<>>
          /\ cwCkr = NewChecker(UNKNOWN, ErrSession))
    /\ (cwPc = "done" /\ (SomeRequestFailed \/ ~p.Service) =>
          cwCkr.status \notin {CRITICAL, WARNING, OK} /\ cwCkr.msg # <<>>)

\* C3 witness: the third request fails after two pages that returned messages
FailureOnLaterPage ==
    /\ cwPc = "done"
    /\ Len(responses) = 3
    /\ responses[3].err # NoError
    /\ Len(responses[1].Events) + Len(responses[2].Events) > opts.CriticalOver
    /\ cwCkr.status = UNKNOWN

\* C4: a successful query whose pages all carry zero events gives OK "ok";
\* with at least one appended message the text is the concatenation of all
\* messages and the status is the one of the threshold rule.
EmptyResultOkElseThresholdRule ==
    QuerySucceeded =>
        LET all == AllEvents(responses)
            n == Len(all)
        IN  IF n = 0
              THEN cwCkr = NewChecker(OK, <<"o", "k">>)
              ELSE /\ cwCkr.msg = JoinEmpty(all)
                   /\ cwCkr.status = (IF n > opts.CriticalOver THEN CRITICAL
                                      ELSE IF n > opts.WarningOver THEN WARNING
                                      ELSE OK)

\* the part of C4 that does not depend on the thresholds given on the command
\* line: empty result gives OK "ok", otherwise the text is the concatenation
EmptyResultOkElseJoined ==
    QuerySucceeded =>
        LET all == AllEvents(responses)
        IN  IF all = <<>>
              THEN cwCkr = NewChecker(OK, <<"o", "k">>)
              ELSE cwCkr.msg = JoinEmpty(all)

\* C14: within one invocation of the pagination loop every request, the
\* first page and all continuation pages, carries the same StartTime, fixed
\* once, even though pauses elapse between the pages.
SameStartTimeOnEveryPage ==
    \A i, j \in DOMAIN requests : requests[i].StartTime = requests[j].StartTime

\* the StartTime of every request is the clock reading of its own loop
\* iteration minus five minutes, cut to whole seconds: it never decreases
\* from page to page and moves on when a pause crosses a second boundary
StartTimeFollowsClock ==
    /\ \A i \in 1..(Len(requests) - 1) : requests[i].StartTime <= requests[i + 1].StartTime
    /\ (requests # <<>> /\ cwPc \in {"sleep", "done"} =>
          requests[Len(requests)].StartTime = StartTimeAt(now))

\* a continuation request carries a later StartTime than the first request
StartTimeMoved ==
    /\ Len(requests) >= 2
    /\ requests[1].NextToken = NilToken
    /\ requests[2].NextToken = responses[1].NextToken
    /\ requests[2].StartTime > requests[1].StartTime

\* the command line gave thresholds
ThresholdsGiven == opts.WarningOver > 0 /\ opts.CriticalOver > opts.WarningOver

OffsetMeasured == ntpPc = "done" /\ measured.err = NoError

\* the parser of ntpq output was called
ParserARan ==
    ntpPc = "done" /\ detected.name = <<"n", "t", "p", "d">> /\ detected.err = NoError
    /\ offsetCmd.startErr = NoError

\* the parser of chronyc output was called
ParserBRan ==
    ntpPc = "done" /\ detected.name = <<"c", "h", "r", "o", "n", "y", "d">> /\ detected.err = NoError
    /\ offsetCmd.startErr = NoError

NtpFailuresAreUnknown ==
    /\ (ntpPc \notin {"start", "exit", "idle", "detect", "panic"} /\ detected.err # NoError =>
          ntpPc = "done" /\ ntpCkr = NewChecker(UNKNOWN, detected.err))
    /\ (ntpPc = "done" /\ detectCmd.startErr # NoError =>
          ntpCkr = NewChecker(UNKNOWN, detectCmd.startErr))
    /\ (ntpPc \in {"measure", "done"} /\ detected.err = NoError
          /\ detected.name \notin { <<"n", "t", "p", "d">>, <<"c", "h", "r", "o", "n", "y", "d">> } =>
          /\ ntpPc = "done"
          /\ offsetCmd = NoCmd
          /\ ntpCkr = NewChecker(UNKNOWN, <<"u", "n", "s", "u", "p", "p", "o", "r", "t", "e", "d", " ", "n", "t", "p", " ", "d", "a", "e", "m", "o", "n", " ", "\"">> \o detected.name \o <<"\"">>))
    /\ (ntpPc = "done" /\ offsetCmd.startErr # NoError =>
          ntpCkr = NewChecker(UNKNOWN, offsetCmd.startErr))
    /\ (ntpPc = "done" /\ parsed.err # NoError =>
          ntpCkr = NewChecker(UNKNOWN, parsed.err))
    /\ (ntpPc = "done" /\ measured.err # NoError =>
          ntpCkr.status = UNKNOWN /\ ntpCkr.msg # <<>>)

\* C6 witness: the parser failed and left the placeholder offset 0, which the
\* thresholds would classify as OK
ParserErrorWithPlaceholder ==
    /\ ntpPc = "done"
    /\ parsed.err # NoError
    /\ measured.offset = 0
    /\ ntpOpts.Warn > 0
    /\ ntpCkr.status = UNKNOWN

\* C6 witness of the other failure modes: an unsupported daemon name
UnsupportedDaemon ==
    /\ ntpPc = "done"
    /\ detected.err = NoError
    /\ detected.name = <<"t", "i", "m", "e", "s", "y", "n", "c", "d">>
    /\ ntpCkr.status = UNKNOWN

\* the number of occurrences of character c in text s
RECURSIVE CountChar(_, _)
CountChar(s, c) ==
    IF s = <<>> THEN 0
    ELSE (IF Head(s) = c THEN 1 ELSE 0) + CountChar(Tail(s), c)

\* the text after the first occurrence of character c in s
RECURSIVE After(_, _)
After(s, c) ==
    IF s = <<>> THEN <<>>
    ELSE IF Head(s) = c THEN Tail(s)
    ELSE After(Tail(s), c)

BeginsWithAssID(line) ==
    Len(line) >= 7 /\ SubSeq(line, 1, 7) = <<"a", "s", "s", "I", "D", "=", "0">>

\* C7: the ntpq output must have 2 or 3 newline-separated parts; with 2 the
\* first line is used, with 3 the second line and only if the first begins
\* with assID=0; the chosen line must contain exactly one `=`, and the text
\* after it is the offset in milliseconds; everything else is an error.
ParserAContract ==
    ParserARan =>
        LET parts == offsetCmd.lines
            n == Len(parts)
            accepted == n = 2 \/ (n = 3 /\ BeginsWithAssID(parts[1]))
            line == IF n = 2 THEN parts[1] ELSE parts[2]
            value == ParseFloat(After(line, "="))
        IN  /\ offsetCmd.out = Join(parts, "\n")
            /\ IF accepted /\ CountChar(line, "=") = 1 /\ value.ok
                 THEN parsed = [offset |-> value.val, err |-> NoError]
                 ELSE parsed.err # NoError /\ parsed.offset = 0
            /\ (accepted /\ CountChar(line, "=") # 1 => parsed.err = ErrNtpdDown)
            /\ (~accepted => parsed.err = ErrNtpdDown)
            /\ (offsetCmd.out = <<"a", "s", "s", "I", "D", "=", "0", " ", "s", "t", "a", "t", "u", "s", "=", "0", "6", "f", "4", " ", ".", ".", ".", "\n", "o", "f", "f", "s", "e", "t", "=", "0", ".", "1", "8", "0", "\n">> =>
                  parsed = [offset |-> 180 * (Scale \div 1000), err |-> NoError])
            /\ (offsetCmd.out = <<"o", "f", "f", "s", "e", "t", "=", "1", "2", ".", "5", "\n">> =>
                  parsed = [offset |-> 125 * (Scale \div 10), err |-> NoError])

\* C7 witness: the three-part form with the assID=0 line first
ParserAThreeParts ==
    /\ ParserARan
    /\ offsetCmd.out = <<"a", "s", "s", "I", "D", "=", "0", " ", "s", "t", "a", "t", "u", "s", "=", "0", "6", "f", "4", " ", ".", ".", ".", "\n", "o", "f", "f", "s", "e", "t", "=", "0", ".", "1", "8", "0", "\n">>
    /\ parsed.err = NoError
    /\ parsed.offset = 180 * (Scale \div 1000)

\* C7 witness: three parts whose first line does not begin with assID=0,
\* although the second line is a well-formed offset
ParserAThreePartsRejected ==
    /\ ParserARan
    /\ offsetCmd.out = <<"x", "a", "s", "s", "I", "D", "=", "0", "\n", "o", "f", "f", "s", "e", "t", "=", "1", "2", ".", "5", "\n">>
    /\ parsed.err = ErrNtpdDown

\* C8: the first line beginning with "Last offset" decides: with exactly 5
\* fields and a numeric field 3 the result is that value times 1000;
\* otherwise it is an error and later lines are not consulted; without such a
\* line the result is an error.
ParserBContract ==
    ParserBRan =>
        LET lines == offsetCmd.lines
            labelled == { i \in 1..Len(lines) :
                            Len(lines[i]) >= 11 /\ SubSeq(lines[i], 1, 11) = <<"L", "a", "s", "t", " ", "o", "f", "f", "s", "e", "t">> }
        IN  /\ offsetCmd.out = Unlines(lines)
            /\ IF labelled = {}
                 THEN parsed = [offset |-> 0, err |-> ErrChronyFormat]
                 ELSE LET first == CHOOSE i \in labelled : \A j \in labelled : i <= j
                          flds == Fields(lines[first])
                      IN  IF Len(flds) = 5 /\ ParseFloat(flds[4]).ok
                            THEN parsed = [offset |-> ParseFloat(flds[4]).val * 1000,
                                           err |-> NoError]
                            ELSE /\ parsed.err # NoError
                                 /\ parsed.offset = 0
                                 /\ (Len(flds) # 5 => parsed.err = ErrChronyFormat)
            /\ (lines # <<>> /\ lines[1] = <<"L", "a", "s", "t", " ", "o", "f", "f", "s", "e", "t", " ", " ", " ", " ", " ", ":", " ", "-", "0", ".", "0", "0", "0", "1", "2", "3", " ", "s", "e", "c", "o", "n", "d", "s">> =>
                  parsed = [offset |-> 0 - 123 * (Scale \div 1000), err |-> NoError])

\* C8 witness: a first "Last offset" line with 4 fields is an error although
\* a later line is well formed
ParserBFirstLineDecides ==
    /\ ParserBRan
    /\ Len(offsetCmd.lines) = 2
    /\ offsetCmd.lines[1] = <<"L", "a", "s", "t", " ", "o", "f", "f", "s", "e", "t", " ", ":", " ", "0", ".", "0", "5">>
    /\ offsetCmd.lines[2] = <<"L", "a", "s", "t", " ", "o", "f", "f", "s", "e", "t", " ", " ", " ", " ", " ", ":", " ", "+", "0", ".", "0", "7", "5", "5", " ", "s", "e", "c", "o", "n", "d", "s">>
    /\ parsed.err = ErrChronyFormat

\* C8 witness: seconds become milliseconds
ParserBMilliseconds ==
    /\ ParserBRan
    /\ offsetCmd.lines = << <<>>, <<"L", "a", "s", "t", " ", "o", "f", "f", "s", "e", "t", " ", " ", " ", " ", " ", ":", " ", "+", "0", ".", "0", "7", "5", "5", " ", "s", "e", "c", "o", "n", "d", "s">> >>
    /\ parsed = [offset |-> 755 * (Scale \div 10), err |-> NoError]

\* detectNTPDname was the last step taken and its subprocess was started
DetectionRan ==
    /\ \/ ntpPc \in {"switch", "panic"}
       \/ ntpPc = "done" /\ detected.err # NoError /\ measured.err = detected.err
    /\ detectCmd.startErr = NoError

\* the line ends in the seven characters c h r o n y d
EndsInChronyd(line) ==
    /\ Len(line) >= 7
    /\ line[Len(line) - 6] = "c" /\ line[Len(line) - 5] = "h" /\ line[Len(line) - 4] = "r"
    /\ line[Len(line) - 3] = "o" /\ line[Len(line) - 2] = "n" /\ line[Len(line) - 1] = "y"
    /\ line[Len(line)] = "d"

\* the positions of the line that hold no blank
NonBlanks(line) == { i \in 1..Len(line) : line[i] \notin {" ", "\t"} }

\* the first field of a line that has one: from the first non-blank up to
\* the next blank
FirstField(line) ==
    LET from == CHOOSE i \in NonBlanks(line) : \A j \in NonBlanks(line) : i <= j
        blanksAfter == { i \in from..Len(line) : i \notin NonBlanks(line) }
        to == IF blanksAfter = {} THEN Len(line)
              ELSE (CHOOSE i \in blanksAfter : \A j \in blanksAfter : i <= j) - 1
    IN  SubSeq(line, from, to)

\* the base name of a path that does not end in a slash
BaseName(path) ==
    LET slashes == { i \in 1..Len(path) : path[i] = "/" }
    IN  IF slashes = {} THEN path
        ELSE SubSeq(path, (CHOOSE i \in slashes : \A j \in slashes : i >= j) + 1, Len(path))

\* C13: when the detection subprocess could be started, the unprivileged
\* path (uid # 0) answers "chronyd" exactly when some line of the process
\* list ends in "chronyd" and chronyc is on the PATH, and "ntpd" in every
\* other case; the privileged path (uid = 0) answers the base name of the
\* first field of the second line of the listing, and a missing or empty
\* second line is the error "it seems no ntp daemon is running".
DetectionContract ==
    DetectionRan =>
        LET lines == detectCmd.lines IN
        IF uid # 0
          THEN /\ detected.name =
                    (IF (\E i \in 1..Len(lines) : EndsInChronyd(lines[i])) /\ lookPath
                       THEN <<"c", "h", "r", "o", "n", "y", "d">> ELSE <<"n", "t", "p", "d">>)
               /\ detected.err = detectCmd.waitErr
               /\ ~detected.panic
        ELSE IF Len(lines) < 2 \/ lines[2] = <<>>
          THEN /\ detected.err = <<"i", "t", " ", "s", "e", "e", "m", "s", " ", "n", "o", " ", "n", "t", "p", " ", "d", "a", "e", "m", "o", "n", " ", "i", "s", " ", "r", "u", "n", "n", "i", "n", "g">>
               /\ detected.name = <<>>
               /\ ntpCkr = NewChecker(UNKNOWN, <<"i", "t", " ", "s", "e", "e", "m", "s", " ", "n", "o", " ", "n", "t", "p", " ", "d", "a", "e", "m", "o", "n", " ", "i", "s", " ", "r", "u", "n", "n", "i", "n", "g">>)
        ELSE IF NonBlanks(lines[2]) # {}
          THEN /\ detected.name = BaseName(FirstField(lines[2]))
               /\ detected.err = detectCmd.waitErr
               /\ ~detected.panic
               /\ (lines[2] = <<"/", "u", "s", "r", "/", "s", "b", "i", "n", "/", "n", "t", "p", "d", " ", "8", "1", "2", " ", "n", "t", "p">> => detected.name = <<"n", "t", "p", "d">>)
        ELSE TRUE

\* C13 witness: a chronyd process is listed but chronyc is not on the PATH
ChronydWithoutChronyc ==
    /\ ntpPc = "switch"
    /\ uid # 0
    /\ ~lookPath
    /\ detectCmd.lines = << <<"s", "s", "h", "d">>, <<"/", "u", "s", "r", "/", "s", "b", "i", "n", "/", "c", "h", "r", "o", "n", "y", "d">> >>
    /\ detected.name = <<"n", "t", "p", "d">>

\* C13 witness: a chronyd process is listed and chronyc is on the PATH
ChronydWithChronyc ==
    /\ ntpPc = "switch"
    /\ uid # 0
    /\ lookPath
    /\ detectCmd.lines = << <<"s", "s", "h", "d">>, <<"/", "u", "s", "r", "/", "s", "b", "i", "n", "/", "c", "h", "r", "o", "n", "y", "d">> >>
    /\ detected.name = <<"c", "h", "r", "o", "n", "y", "d">>

\* C13 witness: the privileged path takes the base name of a path
PrivilegedBaseName ==
    /\ ntpPc = "switch"
    /\ uid = 0
    /\ detectCmd.lines = << <<"C", "O", "M", "M", "A", "N", "D", " ", "P", "I", "D", " ", "U", "S", "E", "R">>, <<"/", "u", "s", "r", "/", "s", "b", "i", "n", "/", "n", "t", "p", "d", " ", "8", "1", "2", " ", "n", "t", "p">> >>
    /\ detected.name = <<"n", "t", "p", "d">>

\* C13 witness: the privileged path finds an empty second line
PrivilegedEmptySecondLine ==
    /\ ntpPc = "done"
    /\ uid = 0
    /\ detectCmd.lines = << <<"C", "O", "M", "M", "A", "N", "D", " ", "P", "I", "D", " ", "U", "S", "E", "R">>, <<>> >>
    /\ ntpCkr.status = UNKNOWN

\* the privileged path of detectNTPDname ran on the output of its subprocess
PrivilegedDetectionRan == DetectionRan /\ uid = 0

\* C17: for every output of the listener listing, also one whose second line
\* is empty or holds only whitespace, the privileged path of detectNTPDname
\* returns a daemon name or the error "it seems no ntp daemon is running"
\* and never aborts the process by taking the first field of a line without
\* fields.
PrivilegedDetectionNeverAborts ==
    PrivilegedDetectionRan =>
        /\ ntpPc # "panic"
        /\ ~detected.panic
        /\ (detected.name # <<>> \/ detected.err = <<"i", "t", " ", "s", "e", "e", "m", "s", " ", "n", "o", " ", "n", "t", "p", " ", "d", "a", "e", "m", "o", "n", " ", "i", "s", " ", "r", "u", "n", "n", "i", "n", "g">>)

\* the privileged path aborts exactly when the second line is not empty and
\* holds only whitespace
PrivilegedDetectionAbortsOnBlanks ==
    PrivilegedDetectionRan =>
        /\ detected.panic <=> (/\ Len(detectCmd.lines) >= 2
                               /\ detectCmd.lines[2] # <<>>
                               /\ NonBlanks(detectCmd.lines[2]) = {})
        /\ detected.panic <=> ntpPc = "panic"

\* the second line of the listing is two blanks and the process aborted
BlankSecondLineAborts ==
    /\ ntpPc = "panic"
    /\ uid = 0
    /\ detectCmd.lines = << <<"C", "O", "M", "M", "A", "N", "D", " ", "P", "I", "D", " ", "U", "S", "E", "R">>, <<" ", " ">> >>
    /\ ntpCkr = NoChecker

\* C18: for every subprocess that writes a finite output to its stdout pipe
\* of bounded capacity and then exits, withCmd eventually returns, also when
\* the callback stops reading before the end of the output; the wait for the
\* exit of the subprocess never blocks forever on a subprocess that is
\* itself blocked writing to the unread pipe. (A callback that aborts the
\* process is counted as ended.)
WithCmdTerminates == <>(wcPc \in {"returned", "panic"})

\* withCmd is in cmd.Wait(), nobody reads the pipe any more, the pipe is
\* full and the subprocess has output left: neither process can take a step
WaitBlockedOnFullPipe ==
    /\ wcPc = "wait"
    /\ child = "running"
    /\ toWrite # <<>>
    /\ Len(pipe) = PipeCapacity

\* cmd.Wait() is only entered when the subprocess can run to its exit
WaitNeverBlocked == ~WaitBlockedOnFullPipe

\* once withCmd waits on a subprocess blocked on the full pipe, it does so
\* for ever
BlockedWaitIsPermanent == [][WaitBlockedOnFullPipe => WaitBlockedOnFullPipe']_vars

\* a callback that reads to the end of the output (ioutil.ReadAll of
\* parseNTPOffsetFromNTPD) always lets withCmd return
ReadToEndTerminates == (callback = "ntpq") ~> (wcPc = "returned")

\* withCmd returns whenever the output left when the callback returns fits
\* into the pipe
ShortOutputTerminates ==
    (wcPc = "wait" /\ Len(toWrite) + Len(pipe) <= PipeCapacity) ~> (wcPc = "returned")

\* the unprivileged detection callback stopped at the first chronyd line and
\* withCmd waits on a subprocess blocked on the full pipe
PsBlockedAfterChronyd ==
    /\ WaitBlockedOnFullPipe
    /\ callback = "ps"
    /\ scanned = << <<"c", "h", "r", "o", "n", "y", "d">> >>

(***************************************************************************)
(* Claims about check-mysql                                                *)
(***************************************************************************)
\* the numbers the numeric parts of the model's version strings denote
NumericParts ==
    { [text |-> <<"8">>, val |-> 8], [text |-> <<"0">>, val |-> 0], [text |-> <<"1">>, val |-> 1],
      [text |-> <<"5">>, val |-> 5], [text |-> <<"7">>, val |-> 7], [text |-> <<"2">>, val |-> 2],
      [text |-> <<"1", "0">>, val |-> 10], [text |-> <<"+", "3">>, val |-> 3] }

IsNumericPart(t) == \E e \in NumericParts : e.text = t
NumberOf(t) == (CHOOSE e \in NumericParts : e.text = t).val

\* getMySQLVersion was called on a text major.minor.patch[-stability], the
\* stability text holding no further `-`
VersionFormParsed ==
    /\ myPc \in {"versioned", "panic"}
    /\ queryErr = NoError
    /\ Len(rawVersion.parts) = 3
    /\ rawVersion.suffix \in { <<>>, <<"-", "d", "m", "r">>, <<"-">> }

VersionNonNumericPatch ==
    /\ myPc = "versioned"
    /\ rawVersion.text = <<"8", ".", "0", ".", "a", "b", "c">>
    /\ ~version.ok

\* the first argument that does not begin with `-`, if any
NonFlagArgs == { i \in 1..Len(osArgs) : osArgs[i] = <<>> \/ osArgs[i][1] # "-" }

\* the command line names no valid subcommand: by its first argument, or by
\* its first argument that does not look like a flag
SubcommandMissingOrUnknown ==
    \/ osArgs = <<>>
    \/ osArgs[1] \notin CommandNames
    \/ NonFlagArgs = {}
    \/ osArgs[CHOOSE i \in NonFlagArgs : \A j \in NonFlagArgs : i <= j] \notin CommandNames

\* C10 as stated: a missing or unknown subcommand runs no check, prints the
\* valid subcommand names and exits with a non-zero code that is none of the
\* check-result codes 0, 1, 2, 3.
UsageExitCodeIsDistinct ==
    myPc # "start" /\ SubcommandMissingOrUnknown =>
        /\ ran = ""
        /\ printed = { <<"r", "e", "p", "l", "i", "c", "a", "t", "i", "o", "n">>, <<"c", "o", "n", "n", "e", "c", "t", "i", "o", "n">>, <<"u", "p", "t", "i", "m", "e">>, <<"r", "e", "a", "d", "o", "n", "l", "y">> }
        /\ myExit # NoExit
        /\ myExit[1] # 0
        /\ myExit[1] \notin {0, 1, 2, 3}

\* C10 as amended: a missing or unknown subcommand runs no check, prints the
\* valid subcommand names and exits with code 1, which is non-zero but is
\* also the exit code of a WARNING result.
UsageExitsWithOne ==
    /\ (myPc # "start" /\ SubcommandMissingOrUnknown =>
          /\ myPc = "exit"
          /\ ran = ""
          /\ myCkr = NoNamedChecker
          /\ printed = { <<"r", "e", "p", "l", "i", "c", "a", "t", "i", "o", "n">>, <<"c", "o", "n", "n", "e", "c", "t", "i", "o", "n">>, <<"u", "p", "t", "i", "m", "e">>, <<"r", "e", "a", "d", "o", "n", "l", "y">> }
          /\ myExit = <<1>>
          /\ myExit[1] # 0
          /\ myExit[1] = ExitCode(WARNING))
    /\ (myPc # "start" /\ ~SubcommandMissingOrUnknown => printed = {})

\* C10 witness: an unknown subcommand was given and the usage was printed
UnknownSubcommandUsage ==
    /\ myPc = "exit"
    /\ osArgs # <<>>
    /\ osArgs[1] = <<"s", "t", "a", "t", "u", "s">>
    /\ printed = CommandNames
    /\ myExit = <<1>>

\* C10 witness: no subcommand was given
MissingSubcommandUsage ==
    /\ myPc = "exit"
    /\ osArgs = <<>>
    /\ printed = CommandNames
    /\ myExit = <<1>>

\* Do has separated the subcommand from the command line
Dispatched == myPc \in {"check", "exit"}

\* the command line without its i-th argument
WithoutArg(args, i) == SubSeq(args, 1, i - 1) \o SubSeq(args, i + 1, Len(args))

\* the check function registered under a name, "" when there is none
CheckOf(name) ==
    IF \E e \in Commands : e.name = name
      THEN (CHOOSE e \in Commands : e.name = name).fn
      ELSE ""

\* C11 as stated: the subcommand is the first argument that does not begin
\* with `-`, wherever it stands in the list, the remaining arguments go to the
\* selected check, and both ["uptime", "-H", "db"] and ["-H", "db", "uptime"]
\* select the uptime check.
SubcommandIsFirstNonFlag ==
    Dispatched =>
        /\ IF NonFlagArgs = {}
             THEN subCmd = <<>> /\ argv = osArgs
             ELSE LET i == CHOOSE k \in NonFlagArgs : \A j \in NonFlagArgs : k <= j
                  IN  /\ subCmd = osArgs[i]
                      /\ argv = WithoutArg(osArgs, i)
        /\ ran = CheckOf(subCmd)
        /\ (osArgs \in { <<<<"u", "p", "t", "i", "m", "e">>, <<"-", "H">>, <<"d", "b">>>>, <<<<"-", "H">>, <<"d", "b">>, <<"u", "p", "t", "i", "m", "e">>>> } =>
              ran = "checkUptime")

\* C11 as amended: only the first argument is inspected. When it does not
\* begin with `-` it is the subcommand name and the arguments after it go to
\* the selected check; when it begins with `-`, or there is no argument, no
\* subcommand is selected and the usage error is taken, whatever follows:
\* ["uptime", "-H", "db"] selects the uptime check with ["-H", "db"], and
\* ["-H", "db", "uptime"] selects no check.
SubcommandIsFirstArgument ==
    Dispatched =>
        /\ IF osArgs # <<>> /\ ~HasPrefix(osArgs[1], <<"-">>)
             THEN subCmd = osArgs[1] /\ argv = Tail(osArgs)
             ELSE subCmd = <<>> /\ argv = osArgs /\ ran = "" /\ myExit = <<1>>
        /\ ran = CheckOf(subCmd)
        /\ (ran = "" <=> (myPc = "exit" /\ myCkr = NoNamedChecker /\ printed = CommandNames))
        /\ (osArgs = <<<<"u", "p", "t", "i", "m", "e">>, <<"-", "H">>, <<"d", "b">>>> =>
              ran = "checkUptime" /\ argv = <<<<"-", "H">>, <<"d", "b">>>>)
        /\ (osArgs = <<<<"-", "H">>, <<"d", "b">>, <<"u", "p", "t", "i", "m", "e">>>> =>
              ran = "" /\ subCmd = <<>> /\ argv = osArgs)

\* C11 witness: flags stand before the subcommand name and no check is selected
FlagsBeforeSubcommand ==
    /\ myPc = "exit"
    /\ osArgs = <<<<"-", "H">>, <<"d", "b">>, <<"u", "p", "t", "i", "m", "e">>>>
    /\ subCmd = <<>>
    /\ ran = ""
    /\ myExit = <<1>>

\* C11 witness: the subcommand name stands first and its check is selected
SubcommandBeforeFlags ==
    /\ myPc = "check"
    /\ osArgs = <<<<"u", "p", "t", "i", "m", "e">>, <<"-", "H">>, <<"d", "b">>>>
    /\ ran = "checkUptime"
    /\ argv = <<<<"-", "H">>, <<"d", "b">>>>

(***************************************************************************)
(* Claims about the threshold evaluators                                   *)
(***************************************************************************)
\* the order OK < WARNING < CRITICAL
Severity(status) ==
    CASE status = OK -> 0
      [] status = WARNING -> 1
      [] status = CRITICAL -> 2

\* the measurement an evaluator classifies: the message count, or |offset|
Measurement(x) == IF evaluator = "ntp" THEN Abs(x) ELSE x

\* C12: for fixed thresholds, in any order, and for both evaluators, a
\* measurement a <= b never gets a more severe status than b in the order
\* OK < WARNING < CRITICAL.
SeverityIsMonotonic ==
    evalPc = "done" =>
        /\ statusA \in {OK, WARNING, CRITICAL}
        /\ statusB \in {OK, WARNING, CRITICAL}
        /\ (Measurement(measureA) <= Measurement(measureB) =>
              Severity(statusA) <= Severity(statusB))
        /\ (Measurement(measureB) <= Measurement(measureA) =>
              Severity(statusB) <= Severity(statusA))

\* C12 witness: the CloudWatch Logs evaluator with the critical threshold
\* below the warning threshold, a smaller count OK and a larger one CRITICAL
MisorderedCountThresholds ==
    /\ evalPc = "done"
    /\ evaluator = "cloudwatch"
    /\ thresholds.crit < thresholds.warn
    /\ measureA < measureB
    /\ measureB <= thresholds.warn
    /\ statusA = OK
    /\ statusB = CRITICAL

\* C12 witness: the NTP evaluator with misordered thresholds and offsets of
\* opposite sign, the one of smaller magnitude OK and the other CRITICAL
MisorderedOffsetThresholds ==
    /\ evalPc = "done"
    /\ evaluator = "ntp"
    /\ thresholds.crit < thresholds.warn
    /\ measureA > 0
    /\ measureB < 0
    /\ Abs(measureA) < Abs(measureB)
    /\ statusA = OK
    /\ statusB = CRITICAL

\* getMySQLVersion was called and the query returned a text
VersionTextParsed == myPc \in {"versioned", "panic"} /\ queryErr = NoError

\* C16: for every version string, also one with fewer than three
\* dot-separated parts before the first `-`, getMySQLVersion returns a
\* structured version or a parse error and never aborts the process by
\* indexing a missing part.
VersionParserNeverAborts ==
    VersionTextParsed =>
        /\ myPc = "versioned"
        /\ ~version.panic
        /\ (version.ok \/ version.err # NoError)

\* getMySQLVersion aborts exactly on the texts whose dotted part has fewer
\* than three parts, all of them numeric; a non-numeric part met first is a
\* parse error
VersionAbortsOnMissingPart ==
    VersionTextParsed =>
        LET ps == rawVersion.parts IN
        /\ version.panic <=> (Len(ps) < 3 /\ \A i \in 1..Len(ps) : IsNumericPart(ps[i]))
        /\ version.panic <=> myPc = "panic"
        /\ (~version.panic => (version.ok \/ version.err # NoError))

\* the text "8.0" was parsed and the process aborted
VersionTwoPartsAborts ==
    /\ myPc = "panic"
    /\ rawVersion.text = <<"8", ".", "0">>
    /\ version.panic

\* the text "-" (an empty dotted part) was parsed and is a parse error
VersionEmptyIsParseError ==
    /\ myPc = "versioned"
    /\ rawVersion.text = <<"-">>
    /\ ~version.ok
    /\ version.err # NoError
====
